---------------------------- MODULE Spec2Model ----------------------------
(***************************************************************************)
(* Model of the medical chatbot: the POST /chat handler of app.py and the  *)
(* get_response chains of the chatbot variants (groq_chain, working_chain, *)
(* chain, updated_chain).                                                  *)
(*                                                                         *)
(* Texts are TLA+ strings, handled character by character with Len, \o and *)
(* SubSeq.  The module is ASCII, so the pictographs of the source's fixed    *)
(* texts are written with stand-ins of the same number of code points:     *)
(*   "#"  for the siren sign        (1 code point)                         *)
(*   "@"  for the telephone sign    (1 code point)                         *)
(*   "^^" for the warning sign      (2 code points: sign + variation sel.) *)
(*   "+"  for the bullet            (1 code point)                         *)
(*   "~"  for the degree sign       (1 code point)                         *)
(* None of the stand-ins is a letter, white space or one of ".!?", as none *)
(* of the originals is.                                                    *)
(***************************************************************************)
EXTENDS Integers, Sequences, FiniteSets, TLC

(***************************************************************************)
(* Python values                                                           *)
(***************************************************************************)

\* Python's None, and a value that is not None (an optional string is <<>> or <<s>>).
None == <<>>

Some(s) == <<s>>

\* bool(x) of an optional string: None and '' are falsy.
Truthy(o) == o # None /\ o[1] # ""

SetMin(S) == CHOOSE x \in S : \A y \in S : x <= y

SetMax(S) == CHOOSE x \in S : \A y \in S : x >= y

(***************************************************************************)
(* Python str operations                                                   *)
(***************************************************************************)

\* s[i-1], the i-th character (1-based)
CharAt(s, i) == SubSeq(s, i, i)

\* s[:n]
Take(s, n) == IF n >= Len(s) THEN s ELSE SubSeq(s, 1, n)

\* s[n:]
Drop(s, n) == IF n >= Len(s) THEN "" ELSE SubSeq(s, n + 1, Len(s))

\* t in s
Contains(s, t) ==
    \E i \in 1..(Len(s) - Len(t) + 1) : SubSeq(s, i, i + Len(t) - 1) = t

\* s.startswith(t)
StartsWith(s, t) == Len(t) <= Len(s) /\ SubSeq(s, 1, Len(t)) = t

\* s.endswith(t)
EndsWith(s, t) == Len(t) <= Len(s) /\ SubSeq(s, Len(s) - Len(t) + 1, Len(s)) = t

UpperAlphabet == "ABCDEFGHIJKLMNOPQRSTUVWXYZ"

LowerAlphabet == "abcdefghijklmnopqrstuvwxyz"

\* the lower-case letter of every upper-case letter
LowerOf ==
    [c \in {CharAt(UpperAlphabet, i) : i \in 1..Len(UpperAlphabet)} |->
        CharAt(LowerAlphabet,
               CHOOSE i \in 1..Len(UpperAlphabet) : CharAt(UpperAlphabet, i) = c)]

LowerChar(c) == IF c \in DOMAIN LowerOf THEN LowerOf[c] ELSE c

\* s[a-1:b], the characters from the a-th to the b-th (1-based), cut at the end of s
Part(s, a, b) ==
    IF a > Len(s) \/ b < a THEN "" ELSE SubSeq(s, a, IF b > Len(s) THEN Len(s) ELSE b)

\* s.lower(): by quarters of q characters, so that the recursion depth is logarithmic
\* in len(s)
RECURSIVE Lower(_)
LowerQuarters(s, q) ==
    (Lower(Part(s, 1, q)) \o Lower(Part(s, q + 1, 2 * q)))
    \o (Lower(Part(s, 2 * q + 1, 3 * q)) \o Lower(Part(s, 3 * q + 1, Len(s))))
Lower(s) ==
    IF Len(s) <= 1 THEN LowerChar(s) ELSE LowerQuarters(s, (Len(s) + 3) \div 4)

\* str.isspace() of one character
IsSpace(c) == c \in {" ", "\t", "\n", "\r"}

\* s.strip()
Strip(s) ==
    LET I == {i \in 1..Len(s) : ~IsSpace(CharAt(s, i))}
    IN  IF I = {} THEN "" ELSE SubSeq(s, SetMin(I), SetMax(I))

\* the positions of s that hold a character of D, in ascending order
CutPositions(s, D) ==
    SelectSeq([j \in 1..Len(s) |-> j], LAMBDA j : CharAt(s, j) \in D)

\* the pieces of s between the cut positions: one more piece than there are cuts, the
\* piece between two adjacent cuts being empty
PiecesBetween(s, cuts) ==
    [k \in 1..(Len(cuts) + 1) |->
        Part(s, IF k = 1 THEN 1 ELSE cuts[k - 1] + 1,
                 IF k > Len(cuts) THEN Len(s) ELSE cuts[k] - 1)]

\* the pieces of s cut at every character of D
SplitAt(s, D) == PiecesBetween(s, CutPositions(s, D))

\* the pieces with the empty ones between two adjacent separators left out: the first
\* and the last piece stay
DropInnerEmpty(pieces) ==
    IF Len(pieces) <= 2 THEN pieces
    ELSE <<pieces[1]>>
         \o SelectSeq(SubSeq(pieces, 2, Len(pieces) - 1), LAMBDA piece : piece # "")
         \o <<pieces[Len(pieces)]>>

\* the pieces of s from position i on, cut at the characters of D; with runs, a
\* maximal run of such characters is one separator (the regex [..]+)
SplitFrom(s, D, runs, i) ==
    IF runs THEN DropInnerEmpty(SplitAt(Drop(s, i - 1), D)) ELSE SplitAt(Drop(s, i - 1), D)

\* s.split('\n')
SplitLines(s) == SplitFrom(s, {"\n"}, FALSE, 1)

\* re.split(r'[.!?]+', s)
SplitSentences(s) == SplitFrom(s, {".", "!", "?"}, TRUE, 1)

\* sep.join(parts): by halves, so that the recursion depth is logarithmic in len(parts)
RECURSIVE Join(_, _)
Join(parts, sep) ==
    IF Len(parts) = 0 THEN ""
    ELSE IF Len(parts) = 1 THEN parts[1]
    ELSE Join(SubSeq(parts, 1, Len(parts) \div 2), sep) \o sep
         \o Join(SubSeq(parts, Len(parts) \div 2 + 1, Len(parts)), sep)

(***************************************************************************)
(* Fixed texts                                                             *)
(***************************************************************************)

\* app.py:51
EmptyPrompt == "Please enter a medical question."

\* app.py:65
GenericError == "Please consult healthcare professionals for medical advice."

\* app.py:19
BasicReply == "Medical chatbot available. Please consult healthcare professionals."

\* groq_chain.py:164, working_chain.py:142, chain.py:116
Disclaimer == "\n\n^^ Consult healthcare professionals for medical advice."

\* updated_chain.py:66
UpdatedDisclaimer == "\n\n---\n^^ **Medical Disclaimer**: I am an AI assistant. Always consult healthcare professionals for medical advice."

\* groq_chain.py:247, working_chain.py:271, chain.py:196
CallToAction == "\n\n@ Call emergency services!"

\* updated_chain.py:119
UpdatedCallToAction == "\n\n@ Call your local emergency number RIGHT NOW!"

\* groq_chain.py:138
GroqCaught == "I can provide health information. Please consult a doctor for medical advice.\n\n^^ Consult healthcare professionals."

\* working_chain.py:146
WorkingCaught == "I can provide general health information. Please consult a doctor for medical advice."

\* chain.py:120
EnhancedCaught == "I can provide health information. Please consult a doctor for medical advice."

\* updated_chain.py:70
UpdatedCaught == "I can provide general health information. For medical advice, please consult a healthcare professional."

(***************************************************************************)
(* Emergency tables: a dict iterates in insertion order, so each table is  *)
(* the sequence of its (trigger, response) items in definition order.      *)
(***************************************************************************)

GroqEmergencies == <<
    <<"chest pain", "# CHEST PAIN: Could indicate heart attack! Call emergency services immediately!">>,
    <<"heart attack", "# HEART ATTACK: Call emergency services now! Symptoms: chest pain, shortness of breath.">>,
    <<"stroke", "# STROKE: Call emergency services! Look for face drooping, arm weakness, speech difficulty.">> >>

WorkingEmergencies == <<
    <<"chest pain", "# CHEST PAIN could indicate a heart attack. Call emergency services immediately!">>,
    <<"heart attack", "# HEART ATTACK: Call emergency services now! Symptoms: chest pain, shortness of breath.">>,
    <<"stroke", "# STROKE: Remember FAST - Face drooping, Arm weakness, Speech difficulty. Call emergency services!">>,
    <<"difficulty breathing", "# BREATHING DIFFICULTY: This is a medical emergency! Call for help immediately!">>,
    <<"severe bleeding", "# SEVERE BLEEDING: Apply pressure and call emergency services!">>,
    <<"unconscious", "# UNCONSCIOUS: Check breathing, call emergency services!">>,
    <<"suicide", "# Call emergency services or a crisis helpline immediately! Your life matters!">>,
    <<"kill myself", "# Call for help now! Emergency services are available 24/7!">>,
    <<"choking", "# CHOKING: If can't breathe, call emergency services!">>,
    <<"severe allergic reaction", "# SEVERE ALLERGIC REACTION: This can be life-threatening! Call emergency services!">> >>

EnhancedEmergencies == <<
    <<"chest pain", "# CHEST PAIN: Could indicate heart attack. Call emergency services!">>,
    <<"heart attack", "# HEART ATTACK: Call emergency services immediately!">>,
    <<"stroke", "# STROKE: Call emergency services! Look for face drooping, arm weakness.">>,
    <<"difficulty breathing", "# BREATHING DIFFICULTY: Emergency! Call for help!">>,
    <<"suicide", "# Call emergency services or crisis helpline immediately!">> >>

UpdatedEmergencies == <<
    <<"chest pain", "# CHEST PAIN could be a heart attack. Call emergency services immediately!">>,
    <<"heart attack", "# HEART ATTACK: Call emergency services now! Symptoms include chest pain and shortness of breath.">>,
    <<"stroke", "# STROKE: Call emergency services! Look for face drooping, arm weakness, speech difficulty.">>,
    <<"difficulty breathing", "# BREATHING PROBLEMS: This is an emergency! Call for help immediately!">>,
    <<"severe bleeding", "# SEVERE BLEEDING: Apply pressure and call emergency services!">>,
    <<"unconscious", "# UNCONSCIOUS person: Check breathing and call emergency services!">>,
    <<"suicide", "# Please call emergency services or a crisis helpline immediately! Your life matters!">>,
    <<"kill myself", "# Call for help now! Emergency services and crisis lines are available 24/7!">> >>

\* a scan that compares the query with the trigger (condition == query) instead of
\* looking for the trigger inside it
ScanEmergenciesExact(table, suffix, query, i) ==
    IF \A j \in i..Len(table) : query # table[j][1] THEN None
    ELSE Some(table[CHOOSE j \in i..Len(table) : query = table[j][1]][2] \o suffix)

\* a scan that does not return at the first hit: the last matching item wins
ScanEmergenciesLast(table, suffix, query, i) ==
    LET hits == {j \in i..Len(table) : Contains(query, table[j][1])}
    IN  IF hits = {} THEN None ELSE Some(table[SetMax(hits)][2] \o suffix)

\* the response of item j of the table
EmergencyResponse(table, suffix, j) == Some(table[j][2] \o suffix)

\* for condition, response in table.items(): if condition in query: return response + suffix
\* (the loop from item i on: the first item whose condition is in the query returns);
\* return None after the loop
ScanEmergencies(table, suffix, query, i) ==
    IF \A j \in i..Len(table) : ~Contains(query, table[j][1]) THEN None
    ELSE EmergencyResponse(table, suffix,
             CHOOSE j \in i..Len(table) :
                 /\ Contains(query, table[j][1])
                 /\ \A k \in i..(j - 1) : ~Contains(query, table[k][1]))

\* GroqMedicalChatbot._check_medical_emergency: the query is scanned as given
Groq_check_medical_emergency(query) ==
    ScanEmergencies(GroqEmergencies, CallToAction, query, 1)

\* working_chain.MedicalChatbot._check_medical_emergency: lower-cases the query itself
Working_check_medical_emergency(query) ==
    ScanEmergencies(WorkingEmergencies, CallToAction, Lower(query), 1)

\* EnhancedMedicalChatbot._check_medical_emergency: the query is scanned as given
Enhanced_check_medical_emergency(query) ==
    ScanEmergencies(EnhancedEmergencies, CallToAction, query, 1)

\* updated_chain.MedicalChatbot._check_medical_emergency: lower-cases the query itself
Updated_check_medical_emergency(query) ==
    ScanEmergencies(UpdatedEmergencies, UpdatedCallToAction, Lower(query), 1)

(***************************************************************************)
(* The outside world of one request.  A chatbot object "self" is a record  *)
(* [groq_available, llm, vectorstore]; llm and vectorstore are "None" or   *)
(* the name of the object held.  A similarity search or a completion call  *)
(* either raises or returns: [raised, docs] and [raised, content].  The    *)
(* world of a request, w, gives the outcome of each similarity search of   *)
(* the request in call order (w.search) and of the completion call (w.llm).*)
(***************************************************************************)

NoStore == "None"

NoLLM == "None"

\* What is seen of a call of get_response is a record [ret, raised, caught, emergency,
\* searches, invokes, prompts]: the string returned, whether the call raised, whether
\* its except branch ran, what _check_medical_emergency gave, the number of calls of
\* similarity_search and of llm.invoke, and the prompts sent.

\* if emergency_response: return emergency_response
EmergencyReturn(emergency_response) ==
    [ret |-> emergency_response[1], raised |-> FALSE, caught |-> FALSE,
     emergency |-> emergency_response, searches |-> 0, invokes |-> 0, prompts |-> <<>>]

\* the emergency check of get_response and, when it gives nothing, the try block whose
\* outcome is r = [ret, searches, invokes, prompts]
AfterEmergencyCheck(emergency_response, r) ==
    IF Truthy(emergency_response) THEN EmergencyReturn(emergency_response)
    ELSE [ret |-> r.ret, raised |-> FALSE, caught |-> FALSE,
          emergency |-> emergency_response, searches |-> r.searches,
          invokes |-> r.invokes, prompts |-> r.prompts]

(***************************************************************************)
(* groq_chain.GroqMedicalChatbot                                           *)
(***************************************************************************)

GroqCompare == "**Medication vs Lifestyle for Diabetes**\n\n**Medications:**\n+ Insulin injections (Type 1)\n+ Metformin and other pills (Type 2)\n+ Quick blood sugar control\n+ Essential for some cases\n\n**Lifestyle Changes:**\n+ Healthy diet low in sugar\n+ Regular exercise\n+ Weight management\n+ Long-term health benefits\n\n**Best Approach:** Combination of both for comprehensive diabetes management.\n\n^^ Consult healthcare professionals for medical advice."

GroqDiabetes == "Diabetes management combines medications (insulin, metformin) with lifestyle changes (diet, exercise) for optimal blood sugar control."

GroqHeart == "Heart disease treatment includes medications, medical procedures, and lifestyle modifications like healthy eating and regular physical activity."

GroqCancer == "Cancer treatment options include surgery, chemotherapy, radiation therapy, immunotherapy, and targeted therapies depending on cancer type and stage."

GroqDefault == "I can provide medical information from authoritative sources. Please consult healthcare professionals for personalized medical advice."

GroqPromptHead == "You are a medical expert assistant. Answer this medical question clearly and helpfully.\n\nQuestion: "

GroqPromptReference == "Reference medical information:\n"

GroqPromptTail == "Please provide:\n- Clear, accurate answer\n- Simple explanations\n- Practical information\n- Important safety notes\n\nAnswer:"

\* k of the similarity search
GroqK == 2

\* len(line.strip()) > 20
GroqMinLine == 20

\* [:800] of the joined context
GroqContextBudget == 800

\* medical_context[:500] in the prompt
GroqPromptBudget == 500

\* len(sentence) > 40
GroqMinSentence == 40

\* sentence[:250]
GroqSentenceBudget == 250

\* [line.strip() for line in lines if len(line.strip()) > 20 and 'contents' not in line.lower()]
GroqStripped(lines) == [k \in 1..Len(lines) |-> Strip(lines[k])]

GroqCleanLines(lines) ==
    GroqStripped(SelectSeq(lines,
                           LAMBDA line : /\ Len(Strip(line)) > GroqMinLine
                                         /\ ~Contains(Lower(line), "contents")))

\* clean_content after the loop over docs: the clean lines of every doc, in order
RECURSIVE GroqCleanContent(_)
GroqCleanContent(docs) ==
    IF Len(docs) = 0 THEN <<>>
    ELSE GroqCleanLines(SplitLines(docs[1])) \o GroqCleanContent(Tail(docs))

\* GroqMedicalChatbot._get_medical_context; so is the outcome of the similarity search.
\* Returns the context (None or a string) and the number of searches made.
Groq_get_medical_context(self, query, so) ==
    IF self.vectorstore = NoStore THEN [ctx |-> None, searches |-> 0]
    ELSE IF so.raised THEN [ctx |-> None, searches |-> 1]
    ELSE IF Len(so.docs) > 0
         THEN [ctx |-> Some(Take(Join(GroqCleanContent(so.docs), "\n"), GroqContextBudget)),
               searches |-> 1]
         ELSE [ctx |-> None, searches |-> 1]

\* the loop returning the last sentence longer than n instead of the first
LastLongerThan(sentences, n) ==
    IF \A i \in 1..Len(sentences) : Len(sentences[i]) <= n THEN None
    ELSE Some(sentences[CHOOSE i \in 1..Len(sentences) :
                           /\ Len(sentences[i]) > n
                           /\ \A j \in (i + 1)..Len(sentences) : Len(sentences[j]) <= n])

\* for sentence in sentences: if len(sentence) > n: return <<sentence>>; None after the loop
FirstLongerThan(sentences, n) ==
    IF \A i \in 1..Len(sentences) : Len(sentences[i]) <= n THEN None
    ELSE Some(sentences[CHOOSE i \in 1..Len(sentences) :
                           /\ Len(sentences[i]) > n
                           /\ \A j \in 1..(i - 1) : Len(sentences[j]) <= n])

\* _get_basic_response with the disclaimer forgotten on the keyword answers
Groq_get_basic_response_Bare(self, question, sos) ==
    LET question_lower == Lower(question)
    IN  IF Contains(question_lower, "diabetes") /\ Contains(question_lower, "compare")
        THEN [ret |-> GroqCompare, searches |-> 0]
        ELSE IF Contains(question_lower, "diabetes")
        THEN [ret |-> GroqDiabetes, searches |-> 0]
        ELSE IF Contains(question_lower, "heart")
        THEN [ret |-> GroqHeart, searches |-> 0]
        ELSE IF Contains(question_lower, "cancer")
        THEN [ret |-> GroqCancer, searches |-> 0]
        ELSE LET c == Groq_get_medical_context(self, question, sos[1])
                 s == IF Truthy(c.ctx)
                      THEN FirstLongerThan(SplitSentences(c.ctx[1]), GroqMinSentence)
                      ELSE None
             IN  IF s # None
                 THEN [ret |-> Take(s[1], GroqSentenceBudget) \o "..." \o Disclaimer,
                       searches |-> c.searches]
                 ELSE [ret |-> GroqDefault \o Disclaimer, searches |-> c.searches]

\* _get_basic_response consulting the book before the keyword branches
Groq_get_basic_response_BookFirst(self, question, sos) ==
    LET question_lower == Lower(question)
        c == Groq_get_medical_context(self, question, sos[1])
        s == IF Truthy(c.ctx)
             THEN FirstLongerThan(SplitSentences(c.ctx[1]), GroqMinSentence)
             ELSE None
    IN  IF s # None
        THEN [ret |-> Take(s[1], GroqSentenceBudget) \o "..." \o Disclaimer,
              searches |-> c.searches]
        ELSE IF Contains(question_lower, "diabetes") /\ Contains(question_lower, "compare")
        THEN [ret |-> GroqCompare, searches |-> c.searches]
        ELSE IF Contains(question_lower, "diabetes")
        THEN [ret |-> GroqDiabetes \o Disclaimer, searches |-> c.searches]
        ELSE IF Contains(question_lower, "heart")
        THEN [ret |-> GroqHeart \o Disclaimer, searches |-> c.searches]
        ELSE IF Contains(question_lower, "cancer")
        THEN [ret |-> GroqCancer \o Disclaimer, searches |-> c.searches]
        ELSE [ret |-> GroqDefault \o Disclaimer, searches |-> c.searches]

\* GroqMedicalChatbot._get_basic_response; sos are the outcomes of the searches still to come
Groq_get_basic_response(self, question, sos) ==
    LET question_lower == Lower(question)
    IN  IF Contains(question_lower, "diabetes") /\ Contains(question_lower, "compare")
        THEN [ret |-> GroqCompare, searches |-> 0]
        ELSE IF Contains(question_lower, "diabetes")
        THEN [ret |-> GroqDiabetes \o Disclaimer, searches |-> 0]
        ELSE IF Contains(question_lower, "heart")
        THEN [ret |-> GroqHeart \o Disclaimer, searches |-> 0]
        ELSE IF Contains(question_lower, "cancer")
        THEN [ret |-> GroqCancer \o Disclaimer, searches |-> 0]
        ELSE LET c == Groq_get_medical_context(self, question, sos[1])
                 s == IF Truthy(c.ctx)
                      THEN FirstLongerThan(SplitSentences(c.ctx[1]), GroqMinSentence)
                      ELSE None
             IN  IF s # None
                 THEN [ret |-> Take(s[1], GroqSentenceBudget) \o "..." \o Disclaimer,
                       searches |-> c.searches]
                 ELSE [ret |-> GroqDefault \o Disclaimer, searches |-> c.searches]

\* a prompt that leaves the retrieved context out
GroqPromptNoContext(question, medical_context) ==
    GroqPromptHead \o question \o "\n\n" \o GroqPromptTail

\* the prompt of GroqMedicalChatbot._get_groq_enhanced_response
GroqPrompt(question, medical_context) ==
    GroqPromptHead \o question \o "\n\n"
    \o (IF Truthy(medical_context)
        THEN GroqPromptReference \o Take(medical_context[1], GroqPromptBudget) \o "\n\n"
        ELSE "")
    \o GroqPromptTail

\* an except branch that answers with the generic message of get_response
GroqFellBackGeneric(searches, prompts, b) ==
    [ret |-> GroqCaught, searches |-> searches, invokes |-> Len(prompts),
     prompts |-> prompts]

\* the except branch of _get_groq_enhanced_response: b is what _get_basic_response
\* does after the searches and the prompts already made
GroqFellBack(searches, prompts, b) ==
    [ret |-> b.ret, searches |-> searches + b.searches,
     invokes |-> Len(prompts), prompts |-> prompts]

\* _get_groq_enhanced_response once _get_medical_context has given c: self.llm.invoke
\* raises when llm is None (AttributeError, before any request is sent) or when the
\* call fails; the except branch answers with _get_basic_response, which may search a
\* second time.
GroqAsk(self, question, w, c) ==
    IF self.llm # NoLLM /\ ~w.llm.raised
    THEN [ret |-> w.llm.content \o Disclaimer, searches |-> c.searches,
          invokes |-> 1, prompts |-> <<GroqPrompt(question, c.ctx)>>]
    ELSE GroqFellBack(c.searches,
                      IF self.llm = NoLLM THEN <<>> ELSE <<GroqPrompt(question, c.ctx)>>,
                      Groq_get_basic_response(self, question,
                          IF c.searches = 0 THEN w.search ELSE Tail(w.search)))

\* GroqMedicalChatbot._get_groq_enhanced_response
Groq_get_groq_enhanced_response(self, question, w) ==
    GroqAsk(self, question, w, Groq_get_medical_context(self, question, w.search[1]))

\* _get_basic_response makes no completion call
GroqWithoutLLM(b) ==
    [ret |-> b.ret, searches |-> b.searches, invokes |-> 0, prompts |-> <<>>]

\* GroqMedicalChatbot.get_response.  Nothing inside the try block raises (both helpers
\* catch every exception themselves), so the except branch returning GroqCaught is
\* never taken and caught is FALSE.
Groq_get_response(self, user_message, w) ==
    AfterEmergencyCheck(
        Groq_check_medical_emergency(Lower(user_message)),
        IF self.groq_available
        THEN Groq_get_groq_enhanced_response(self, user_message, w)
        ELSE GroqWithoutLLM(Groq_get_basic_response(self, user_message, w.search)))

(***************************************************************************)
(* working_chain.MedicalChatbot                                            *)
(***************************************************************************)

WorkingDiabetes == "Diabetes is a condition where the body can't properly regulate blood sugar. There are two main types: Type 1 (insulin-dependent) and Type 2 (often lifestyle-related)."

WorkingHeart == "Heart disease refers to conditions affecting the heart and blood vessels. Includes coronary artery disease, heart failure, and arrhythmias."

WorkingCancer == "Cancer is abnormal cell growth that can spread. Treatments include surgery, chemotherapy, radiation, and immunotherapy."

WorkingAsthma == "Asthma is a chronic lung condition causing breathing difficulties. Managed with inhalers and avoiding triggers."

WorkingHeadache == "Headaches can be tension, migraine, or cluster types. Often treated with rest, hydration, and pain relievers."

WorkingFever == "Fever is elevated body temperature, usually from infection. Rest and fluids help. See doctor if high or prolonged."

WorkingCold == "Colds and flu are respiratory infections. Symptoms include cough, fever, and fatigue. Rest and fluids are important."

WorkingPressure == "High blood pressure often has no symptoms. Managed with diet, exercise, and medication. Regular monitoring is important."

WorkingAllergy == "Allergies are immune responses to substances. Symptoms include sneezing, itching, and rashes. Antihistamines can help."

WorkingDefault == "I can provide concise medical information. Please ask about specific conditions or symptoms."

\* k of the similarity search
WorkingK == 2

\* len(concise_response) > 500
WorkingResponseBudget == 500

\* concise_response[:497]
WorkingResponseCut == 497

\* len(sentence) < 20: skipped
WorkingMinSentence == 20

\* len(' '.join(relevant_sentences)) > 200: enough
WorkingEnough == 200

\* len(sentence) > 50: the first substantial part
WorkingSubstantial == 50

\* sentence[:400], content[:400]
WorkingPartBudget == 400

\* any(word in text for word in words)
AnyIn(text, words) == \E word \in words : Contains(text, word)

\* set(s.split()): the maximal runs of characters that are not white space
Words(s) ==
    LET pieces == SplitFrom(s, {" ", "\t", "\n", "\r"}, TRUE, 1)
    IN  {pieces[i] : i \in 1..Len(pieces)} \ {""}

\* MedicalChatbot._is_relevant (question is already lower-cased by the caller)
Working_is_relevant(sentence, question) ==
    LET sentence_lower == Lower(sentence)
    IN  IF Contains(question, "what is")
        THEN AnyIn(sentence_lower, {"is", "defined as", "means", "refers to"})
        ELSE IF Contains(question, "symptoms")
        THEN AnyIn(sentence_lower, {"symptom", "sign", "experience", "feel"})
        ELSE IF Contains(question, "treatment") \/ Contains(question, "treat")
        THEN AnyIn(sentence_lower, {"treat", "therapy", "medication", "drug", "cure"})
        ELSE IF Contains(question, "cause")
        THEN AnyIn(sentence_lower, {"cause", "due to", "because", "result from"})
        ELSE IF Contains(question, "diagnos")
        THEN AnyIn(sentence_lower, {"diagnos", "test", "detect", "identify"})
        ELSE Cardinality(Words(question) \cap Words(sentence_lower)) >= 2

\* the first loop of _extract_most_relevant_part from sentence i on: relevant_sentences
\* when the loop ends (by break or by exhaustion)
RECURSIVE WorkingRelevant(_, _, _, _)
WorkingRelevant(sentences, question_lower, i, relevant_sentences) ==
    IF i > Len(sentences) THEN relevant_sentences
    ELSE LET sentence == Strip(sentences[i])
         IN  IF Len(sentence) < WorkingMinSentence
             THEN WorkingRelevant(sentences, question_lower, i + 1, relevant_sentences)
             ELSE IF Working_is_relevant(sentence, question_lower)
             THEN LET more == Append(relevant_sentences, sentence)
                  IN  IF Len(Join(more, " ")) > WorkingEnough THEN more
                      ELSE WorkingRelevant(sentences, question_lower, i + 1, more)
             ELSE WorkingRelevant(sentences, question_lower, i + 1, relevant_sentences)

\* s[:400] + ("..." if len(s) > 400 else "")
WorkingPart(s) ==
    Take(s, WorkingPartBudget) \o (IF Len(s) > WorkingPartBudget THEN "..." ELSE "")

\* MedicalChatbot._extract_most_relevant_part
Working_extract_most_relevant_part(content, question) ==
    LET question_lower == Lower(question)
        sentences == SplitSentences(content)
        relevant_sentences == WorkingRelevant(sentences, question_lower, 1, <<>>)
        substantial == FirstLongerThan(sentences, WorkingSubstantial)
    IN  IF Len(relevant_sentences) > 0 THEN Join(relevant_sentences, " ")
        ELSE IF substantial # None THEN WorkingPart(substantial[1])
        ELSE WorkingPart(content)

\* a response returned whatever its length
WorkingLimitNone(concise_response) == concise_response

\* if len(concise_response) > 500: concise_response = concise_response[:497] + "..."
WorkingLimit(concise_response) ==
    IF Len(concise_response) > WorkingResponseBudget
    THEN Take(concise_response, WorkingResponseCut) \o "..."
    ELSE concise_response

\* MedicalChatbot._format_concise_response
Working_format_concise_response(docs, question) ==
    LET full_content == docs[1]
    IN  WorkingLimit(Working_extract_most_relevant_part(full_content, question))

\* _get_concise_fallback with the first keyword misspelt
Working_get_concise_fallback_Typo(query) ==
    LET query_lower == Lower(query)
    IN  IF Contains(query_lower, "diabetis") THEN WorkingDiabetes
        ELSE IF AnyIn(query_lower, {"heart", "cardiac"}) THEN WorkingHeart
        ELSE IF Contains(query_lower, "cancer") THEN WorkingCancer
        ELSE IF Contains(query_lower, "asthma") THEN WorkingAsthma
        ELSE IF Contains(query_lower, "headache") THEN WorkingHeadache
        ELSE IF Contains(query_lower, "fever") THEN WorkingFever
        ELSE IF AnyIn(query_lower, {"cold", "flu"}) THEN WorkingCold
        ELSE IF Contains(query_lower, "blood pressure") THEN WorkingPressure
        ELSE IF AnyIn(query_lower, {"allerg", "sneez"}) THEN WorkingAllergy
        ELSE WorkingDefault

\* MedicalChatbot._get_concise_fallback
Working_get_concise_fallback(query) ==
    LET query_lower == Lower(query)
    IN  IF Contains(query_lower, "diabetes") THEN WorkingDiabetes
        ELSE IF AnyIn(query_lower, {"heart", "cardiac"}) THEN WorkingHeart
        ELSE IF Contains(query_lower, "cancer") THEN WorkingCancer
        ELSE IF Contains(query_lower, "asthma") THEN WorkingAsthma
        ELSE IF Contains(query_lower, "headache") THEN WorkingHeadache
        ELSE IF Contains(query_lower, "fever") THEN WorkingFever
        ELSE IF AnyIn(query_lower, {"cold", "flu"}) THEN WorkingCold
        ELSE IF Contains(query_lower, "blood pressure") THEN WorkingPressure
        ELSE IF AnyIn(query_lower, {"allerg", "sneez"}) THEN WorkingAllergy
        ELSE WorkingDefault

\* MedicalChatbot.get_response of working_chain: a raising similarity search is caught
\* by the except branch, which returns WorkingCaught
Working_get_response(self, user_message, w) ==
    LET user_lower == Lower(user_message)
        emergency_response == Working_check_medical_emergency(user_lower)
        searched == self.vectorstore # NoStore
        so == w.search[1]
        response == IF searched /\ Len(so.docs) > 0
                    THEN Working_format_concise_response(so.docs, user_message)
                    ELSE Working_get_concise_fallback(user_lower)
    IN  IF Truthy(emergency_response)
        THEN [ret |-> emergency_response[1], raised |-> FALSE, caught |-> FALSE,
              emergency |-> emergency_response, searches |-> 0, invokes |-> 0,
              prompts |-> <<>>]
        ELSE IF searched /\ so.raised
        THEN [ret |-> WorkingCaught, raised |-> FALSE, caught |-> TRUE,
              emergency |-> emergency_response, searches |-> 1, invokes |-> 0,
              prompts |-> <<>>]
        ELSE [ret |-> response \o Disclaimer, raised |-> FALSE, caught |-> FALSE,
              emergency |-> emergency_response,
              searches |-> IF searched THEN 1 ELSE 0, invokes |-> 0, prompts |-> <<>>]

(***************************************************************************)
(* chain.EnhancedMedicalChatbot                                            *)
(***************************************************************************)

EnhancedDiabetes == "Diabetes affects blood sugar regulation. Type 1 requires insulin; Type 2 can be managed with lifestyle changes."

EnhancedHeart == "Heart disease includes conditions like coronary artery disease. Prevention involves healthy lifestyle choices."

EnhancedCancer == "Cancer involves abnormal cell growth. Treatments include surgery, chemotherapy, and radiation therapy."

EnhancedDefault == "I can provide information about medical conditions from authoritative sources."

EnhancedPromptHead == "You are a medical assistant. Use the provided medical information to answer the question clearly and concisely.\n\nMEDICAL INFORMATION:\n"

EnhancedPromptQuestion == "\n\nQUESTION: "

EnhancedPromptTail == "\n\nPlease provide:\n1. A clear, direct answer to the question\n2. Key points in simple language\n3. Important safety information\n4. Reference that this is from a medical encyclopedia\n\nKeep the response under 300 words and very easy to understand."

\* k of the similarity search
EnhancedK == 3

\* context[:2000]
EnhancedContextBudget == 2000

\* len(sentence) > 50
EnhancedMinSentence == 50

\* sentence[:400]
EnhancedSentenceBudget == 400

\* EnhancedMedicalChatbot._get_medical_context
Enhanced_get_medical_context(self, query, so) ==
    IF self.vectorstore = NoStore THEN [ctx |-> None, searches |-> 0]
    ELSE IF so.raised THEN [ctx |-> None, searches |-> 1]
    ELSE IF Len(so.docs) > 0
         THEN [ctx |-> Some(Take(Join(so.docs, "\n\n"), EnhancedContextBudget)),
               searches |-> 1]
         ELSE [ctx |-> None, searches |-> 1]

\* _get_basic_response with the heart entry tested before the diabetes entry
Enhanced_get_basic_response_HeartFirst(medical_context, question) ==
    LET s == IF Truthy(medical_context)
             THEN FirstLongerThan(SplitSentences(medical_context[1]), EnhancedMinSentence)
             ELSE None
        question_lower == Lower(question)
    IN  IF s # None
        THEN Take(s[1], EnhancedSentenceBudget)
             \o (IF Len(s[1]) > EnhancedSentenceBudget THEN "..." ELSE "")
        ELSE IF Contains(question_lower, "heart") THEN EnhancedHeart
        ELSE IF Contains(question_lower, "diabetes") THEN EnhancedDiabetes
        ELSE IF Contains(question_lower, "cancer") THEN EnhancedCancer
        ELSE EnhancedDefault

\* EnhancedMedicalChatbot._get_basic_response
Enhanced_get_basic_response(medical_context, question) ==
    LET s == IF Truthy(medical_context)
             THEN FirstLongerThan(SplitSentences(medical_context[1]), EnhancedMinSentence)
             ELSE None
        question_lower == Lower(question)
    IN  IF s # None
        THEN Take(s[1], EnhancedSentenceBudget)
             \o (IF Len(s[1]) > EnhancedSentenceBudget THEN "..." ELSE "")
        ELSE IF Contains(question_lower, "diabetes") THEN EnhancedDiabetes
        ELSE IF Contains(question_lower, "heart") THEN EnhancedHeart
        ELSE IF Contains(question_lower, "cancer") THEN EnhancedCancer
        ELSE EnhancedDefault

\* the prompt of EnhancedMedicalChatbot._get_groq_enhanced_response
EnhancedPrompt(question, medical_context) ==
    EnhancedPromptHead \o medical_context[1] \o EnhancedPromptQuestion \o question
    \o EnhancedPromptTail

\* EnhancedMedicalChatbot._get_groq_enhanced_response: [ret, invokes, prompts]
Enhanced_get_groq_enhanced_response(question, medical_context, w) ==
    IF w.llm.raised
    THEN [ret |-> Enhanced_get_basic_response(medical_context, question),
          invokes |-> 1, prompts |-> <<EnhancedPrompt(question, medical_context)>>]
    ELSE [ret |-> w.llm.content,
          invokes |-> 1, prompts |-> <<EnhancedPrompt(question, medical_context)>>]

\* get_response that asks the hosted model whenever groq_available, also without a
\* context (the f-string then renders None as the text 'None')
Enhanced_get_response_AlwaysLLM(self, user_message, w) ==
    LET user_lower == Lower(user_message)
        emergency_response == Enhanced_check_medical_emergency(user_lower)
        c == Enhanced_get_medical_context(self, user_message, w.search[1])
        shown == IF Truthy(c.ctx) THEN c.ctx ELSE Some("None")
        g == Enhanced_get_groq_enhanced_response(user_message, shown, w)
    IN  IF Truthy(emergency_response)
        THEN [ret |-> emergency_response[1], raised |-> FALSE, caught |-> FALSE,
              emergency |-> emergency_response, searches |-> 0, invokes |-> 0,
              prompts |-> <<>>]
        ELSE IF self.groq_available
        THEN [ret |-> (IF w.llm.raised
                       THEN Enhanced_get_basic_response(c.ctx, user_message)
                       ELSE g.ret) \o Disclaimer,
              raised |-> FALSE, caught |-> FALSE,
              emergency |-> emergency_response, searches |-> c.searches,
              invokes |-> g.invokes, prompts |-> g.prompts]
        ELSE [ret |-> Enhanced_get_basic_response(c.ctx, user_message) \o Disclaimer,
              raised |-> FALSE, caught |-> FALSE,
              emergency |-> emergency_response, searches |-> c.searches,
              invokes |-> 0, prompts |-> <<>>]

\* EnhancedMedicalChatbot.get_response.  Nothing inside the try block raises, so the
\* except branch returning EnhancedCaught is never taken.
Enhanced_get_response(self, user_message, w) ==
    LET user_lower == Lower(user_message)
        emergency_response == Enhanced_check_medical_emergency(user_lower)
        c == Enhanced_get_medical_context(self, user_message, w.search[1])
        g == Enhanced_get_groq_enhanced_response(user_message, c.ctx, w)
    IN  IF Truthy(emergency_response)
        THEN [ret |-> emergency_response[1], raised |-> FALSE, caught |-> FALSE,
              emergency |-> emergency_response, searches |-> 0, invokes |-> 0,
              prompts |-> <<>>]
        ELSE IF self.groq_available /\ Truthy(c.ctx)
        THEN [ret |-> g.ret \o Disclaimer, raised |-> FALSE, caught |-> FALSE,
              emergency |-> emergency_response, searches |-> c.searches,
              invokes |-> g.invokes, prompts |-> g.prompts]
        ELSE [ret |-> Enhanced_get_basic_response(c.ctx, user_message) \o Disclaimer,
              raised |-> FALSE, caught |-> FALSE,
              emergency |-> emergency_response, searches |-> c.searches,
              invokes |-> 0, prompts |-> <<>>]

(***************************************************************************)
(* updated_chain.MedicalChatbot                                            *)
(***************************************************************************)

UpdatedHeadache == "Headaches can have various causes. Rest in a quiet room, stay hydrated, and consider over-the-counter pain relief. See a doctor for severe or frequent headaches."

UpdatedFever == "Fever helps your body fight infection. Rest and drink plenty of fluids. Contact a doctor if fever is over 103~F or lasts more than 3 days."

UpdatedCold == "For cold and flu: get plenty of rest, drink fluids, and use over-the-counter medications for symptom relief. See a doctor if symptoms are severe."

UpdatedPain == "Pain management depends on the cause. Rest the affected area and use over-the-counter pain relievers as directed. Seek medical help for severe pain."

UpdatedDefault == "I can provide general health information. For specific medical concerns, please consult with a healthcare professional."

UpdatedAdditional == "\n\nAdditional information: "

\* k of the similarity search
UpdatedK == 2

\* MedicalChatbot._format_medical_response of updated_chain
Updated_format_medical_response(docs, user_question) ==
    IF Len(docs) > 1 THEN docs[1] \o UpdatedAdditional \o docs[2] ELSE docs[1]

\* MedicalChatbot._get_fallback_response of updated_chain
Updated_get_fallback_response(query) ==
    LET query_lower == Lower(query)
    IN  IF AnyIn(query_lower, {"headache", "head pain"}) THEN UpdatedHeadache
        ELSE IF AnyIn(query_lower, {"fever", "temperature"}) THEN UpdatedFever
        ELSE IF AnyIn(query_lower, {"cold", "flu", "cough"}) THEN UpdatedCold
        ELSE IF AnyIn(query_lower, {"pain", "hurt"}) THEN UpdatedPain
        ELSE UpdatedDefault

\* get_response that makes its similarity search before the emergency check
Updated_get_response_SearchFirst(self, user_message, w) ==
    LET emergency_response == Updated_check_medical_emergency(user_message)
        so == w.search[1]
        searches == IF self.vectorstore = NoStore THEN 0 ELSE 1
        response == IF Len(so.docs) > 0
                    THEN Updated_format_medical_response(so.docs, user_message)
                    ELSE Updated_get_fallback_response(user_message)
    IN  IF self.vectorstore = NoStore \/ so.raised
        THEN [ret |-> UpdatedCaught, raised |-> FALSE, caught |-> TRUE,
              emergency |-> None, searches |-> searches, invokes |-> 0,
              prompts |-> <<>>]
        ELSE IF Truthy(emergency_response)
        THEN [ret |-> emergency_response[1], raised |-> FALSE, caught |-> FALSE,
              emergency |-> emergency_response, searches |-> searches, invokes |-> 0,
              prompts |-> <<>>]
        ELSE [ret |-> response \o UpdatedDisclaimer, raised |-> FALSE, caught |-> FALSE,
              emergency |-> emergency_response, searches |-> searches, invokes |-> 0,
              prompts |-> <<>>]

\* MedicalChatbot.get_response of updated_chain: the search is made on self.vectorstore
\* without a test for None; a raising search (or None.similarity_search) is caught
Updated_get_response(self, user_message, w) ==
    LET emergency_response == Updated_check_medical_emergency(user_message)
        so == w.search[1]
        response == IF Len(so.docs) > 0
                    THEN Updated_format_medical_response(so.docs, user_message)
                    ELSE Updated_get_fallback_response(user_message)
    IN  IF Truthy(emergency_response)
        THEN [ret |-> emergency_response[1], raised |-> FALSE, caught |-> FALSE,
              emergency |-> emergency_response, searches |-> 0, invokes |-> 0,
              prompts |-> <<>>]
        ELSE IF self.vectorstore = NoStore
        THEN [ret |-> UpdatedCaught, raised |-> FALSE, caught |-> TRUE,
              emergency |-> emergency_response, searches |-> 0, invokes |-> 0,
              prompts |-> <<>>]
        ELSE IF so.raised
        THEN [ret |-> UpdatedCaught, raised |-> FALSE, caught |-> TRUE,
              emergency |-> emergency_response, searches |-> 1, invokes |-> 0,
              prompts |-> <<>>]
        ELSE [ret |-> response \o UpdatedDisclaimer, raised |-> FALSE, caught |-> FALSE,
              emergency |-> emergency_response, searches |-> 1, invokes |-> 0,
              prompts |-> <<>>]

(***************************************************************************)
(* app.BasicMedicalChatbot                                                 *)
(***************************************************************************)

\* BasicMedicalChatbot.get_response: no emergency table, no search, no completion
Basic_get_response(self, user_message, w) ==
    [ret |-> BasicReply, raised |-> FALSE, caught |-> FALSE, emergency |-> None,
     searches |-> 0, invokes |-> 0, prompts |-> <<>>]

(***************************************************************************)
(* Start-up: the knowledge a chatbot is built with                         *)
(***************************************************************************)

\* groq_chain.py:40-46
GroqModelNames == <<"llama-3.1-8b-instant", "llama-3.1-70b-versatile",
                    "llama-3.2-1b-preview", "llama-3.2-3b-preview",
                    "llama-3.2-90b-preview">>

\* chain.py:30
EnhancedModelName == "llama2-70b-4096"

\* groq_chain.py:105-109
GroqBasicMedical == <<
    "Diabetes management involves both medication and lifestyle changes.",
    "Heart disease prevention includes diet, exercise, and medications.",
    "Asthma treatment uses inhalers and trigger avoidance.">>

\* chain.py:75-80
EnhancedBasicMedical == <<
    "Diabetes: Condition affecting blood sugar regulation. Type 1 requires insulin, Type 2 can be managed with lifestyle.",
    "Heart disease: Conditions affecting heart and blood vessels. Includes coronary artery disease and heart failure.",
    "Asthma: Chronic lung condition causing breathing difficulties. Managed with inhalers and avoiding triggers.",
    "Cancer: Abnormal cell growth that can spread. Treatments include surgery, chemotherapy, and radiation.">>

\* working_chain.py:82-103
WorkingBasicMedical == <<
    "Headaches can be caused by stress, dehydration, or eye strain. Rest and hydration often help. Over-the-counter pain relievers like ibuprofen can provide relief.",
    "Fever is a common symptom of infection. Normal body temperature is 98.6~F. Rest, fluids, and fever reducers like acetaminophen can help manage fever.",
    "Common cold symptoms include runny nose, sore throat, and coughing. Treatment focuses on rest, hydration, and over-the-counter cold medications.",
    "Back pain can be alleviated with proper posture, stretching exercises, and over-the-counter pain relievers. Physical therapy may help chronic cases.",
    "Allergy symptoms include sneezing, itchy eyes, and runny nose. Antihistamines can provide relief. Avoid known allergens when possible.",
    "Healthy diet includes fruits, vegetables, whole grains, and lean proteins. Limit processed foods and sugar for better health.",
    "Regular exercise for 30 minutes daily improves cardiovascular health and reduces stress. Include both cardio and strength training.",
    "Stress management techniques include deep breathing, meditation, regular exercise, and maintaining work-life balance.",
    "Good sleep hygiene includes consistent sleep schedule, dark quiet environment, and avoiding screens before bedtime.",
    "High blood pressure management includes reducing salt intake, regular exercise, and taking prescribed medications.",
    "Diabetes care involves monitoring blood sugar, eating balanced meals, regular exercise, and taking medications as prescribed.",
    "Asthma symptoms include wheezing, coughing, and shortness of breath. Inhalers and avoiding triggers can help manage asthma.",
    "Arthritis causes joint pain and stiffness. Pain relievers, exercise, and physical therapy can provide relief.",
    "Depression is a mood disorder that can be treated with therapy, medication, and lifestyle changes. Seek professional help.",
    "Anxiety disorders can be managed through therapy, relaxation techniques, and in some cases, medication prescribed by a doctor.",
    "Heart disease prevention includes healthy diet, regular exercise, not smoking, and managing blood pressure and cholesterol.",
    "Cancer screening and early detection are important. Regular checkups and following medical guidelines can save lives.",
    "Stroke symptoms include sudden numbness, confusion, trouble speaking, and vision problems. Call emergency services immediately.",
    "Heart attack symptoms include chest pain, shortness of breath, nausea, and sweating. Call emergency services immediately.",
    "Diabetes symptoms include increased thirst, frequent urination, fatigue, and blurred vision. See a doctor for diagnosis.">>

\* updated_chain.py:14-30
UpdatedMedicalKnowledge == <<
    "Headaches can be caused by stress, dehydration, or eye strain. Rest and hydration often help. Over-the-counter pain relievers like ibuprofen can provide relief.",
    "Fever is a common symptom of infection. Normal body temperature is 98.6~F. Rest, fluids, and fever reducers like acetaminophen can help manage fever.",
    "Common cold symptoms include runny nose, sore throat, and coughing. Treatment focuses on rest, hydration, and over-the-counter cold medications.",
    "Back pain can be alleviated with proper posture, stretching exercises, and over-the-counter pain relievers. Physical therapy may help chronic cases.",
    "Allergy symptoms include sneezing, itchy eyes, and runny nose. Antihistamines can provide relief. Avoid known allergens when possible.",
    "Healthy diet includes fruits, vegetables, whole grains, and lean proteins. Limit processed foods and sugar for better health.",
    "Regular exercise for 30 minutes daily improves cardiovascular health and reduces stress. Include both cardio and strength training.",
    "For minor cuts, clean with soap and water, apply antibiotic ointment, and cover with a bandage. Watch for signs of infection.",
    "High blood pressure management includes reducing salt intake, regular exercise, and taking prescribed medications as directed.",
    "Diabetes care involves monitoring blood sugar, eating balanced meals, regular exercise, and taking medications as prescribed.",
    "Stress management techniques include deep breathing, meditation, regular exercise, and maintaining work-life balance.",
    "Good sleep hygiene includes consistent sleep schedule, dark quiet environment, and avoiding screens before bedtime.",
    "Indigestion and heartburn can be relieved by eating smaller meals and avoiding spicy foods before lying down.",
    "Muscle pain often responds to rest, ice packs, and anti-inflammatory medications. Gentle stretching prevents stiffness.",
    "Seasonal allergies can be managed with allergy medications and keeping windows closed during high pollen counts.">>

\* groq_key.startswith('gsk_') left out of the key test
KeyValidAnyPrefix(key) == Truthy(key)

\* groq_key.startswith('gsk_') of a key that is set and not empty
KeyValid(key) == Truthy(key) /\ StartsWith(key[1], "gsk_")

\* what the loop did from model i on, given what it does after it: sent tells whether
\* the client of model i was built and sent the probe
TriedBefore(i, sent, r) ==
    [r EXCEPT !.tried = <<i>> \o @, !.probed = (IF sent THEN <<i>> ELSE <<>>) \o @]

\* the loop without its break: a READY reply does not end it
RECURSIVE GroqProbeNoBreak(_, _, _)
GroqProbeNoBreak(probes, i, llm) ==
    IF i > Len(GroqModelNames)
    THEN [groq_available |-> FALSE, llm |-> llm, tried |-> <<>>, probed |-> <<>>]
    ELSE IF probes[i] = "ctor"
    THEN TriedBefore(i, FALSE, GroqProbeNoBreak(probes, i + 1, llm))
    ELSE IF probes[i] = "READY"
    THEN [TriedBefore(i, TRUE, GroqProbeNoBreak(probes, i + 1, GroqModelNames[i]))
             EXCEPT !.groq_available = TRUE]
    ELSE TriedBefore(i, TRUE, GroqProbeNoBreak(probes, i + 1, GroqModelNames[i]))

\* the for loop of GroqMedicalChatbot._initialize_groq from model i on.  probes[i] tells
\* what happens with model i: "ctor" (ChatGroq raises), "invoke" (the probe raises),
\* "READY" (the reply holds READY) or "other" (another reply).  self.llm is assigned
\* before the probe, so it keeps the last client that was built.  tried lists the
\* models ChatGroq was called for and probed those whose client was sent the probe,
\* both in the order of the calls.
RECURSIVE GroqProbe(_, _, _)
GroqProbe(probes, i, llm) ==
    IF i > Len(GroqModelNames)
    THEN [groq_available |-> FALSE, llm |-> llm, tried |-> <<>>, probed |-> <<>>]
    ELSE IF probes[i] = "ctor" THEN TriedBefore(i, FALSE, GroqProbe(probes, i + 1, llm))
    ELSE IF probes[i] = "READY"
    THEN [groq_available |-> TRUE, llm |-> GroqModelNames[i], tried |-> <<i>>,
          probed |-> <<i>>]
    ELSE TriedBefore(i, TRUE, GroqProbe(probes, i + 1, GroqModelNames[i]))

\* GroqMedicalChatbot._initialize_groq: the import of langchain_groq comes first,
\* inside the try block, and the key is looked at only when it succeeded
Groq_initialize_groq(env) ==
    IF ~env.groqLib
    THEN [groq_available |-> FALSE, llm |-> NoLLM, tried |-> <<>>, probed |-> <<>>]
    ELSE IF ~KeyValid(env.key)
    THEN [groq_available |-> FALSE, llm |-> NoLLM, tried |-> <<>>, probed |-> <<>>]
    ELSE GroqProbe(env.probes, 1, NoLLM)

\* the model names of test_groq.py: those of _initialize_groq and three more
TestModelNames ==
    GroqModelNames \o <<"llama-3.3-70b-specdec", "llama-guard-3-8b", "mixtral-8x7b-32768">>

\* the for loop of test_groq from model i on: the import of langchain_groq is inside
\* the loop's try block, and the first model whose probe returns is the result.  A
\* model that env.probes does not describe raises in ChatGroq.
RECURSIVE TestProbe(_, _)
TestProbe(env, i) ==
    IF i > Len(TestModelNames) THEN [ret |-> None, tried |-> <<>>, probed |-> <<>>]
    ELSE IF ~env.groqLib THEN TestProbe(env, i + 1)
    ELSE IF i > Len(env.probes) \/ env.probes[i] = "ctor"
    THEN TriedBefore(i, FALSE, TestProbe(env, i + 1))
    ELSE IF env.probes[i] = "invoke" THEN TriedBefore(i, TRUE, TestProbe(env, i + 1))
    ELSE [ret |-> Some(TestModelNames[i]), tried |-> <<i>>, probed |-> <<i>>]

\* test_groq.test_groq: False (None here) or the name of a working model
Test_groq(env) ==
    IF ~Truthy(env.key) THEN [ret |-> None, tried |-> <<>>, probed |-> <<>>]
    ELSE IF ~StartsWith(env.key[1], "gsk_")
    THEN [ret |-> None, tried |-> <<>>, probed |-> <<>>]
    ELSE TestProbe(env, 1)

\* _load_medical_book of the three classes that have it: env.db is "absent" (no
\* ./medical_book_db), "broken" (the embeddings, Chroma or the test search raise) or "ok"
Load_medical_book(env) == IF env.db = "ok" THEN "book" ELSE NoStore

\* _load_basic_knowledge: the in-memory store, or None when building it raises
Load_basic_knowledge(env) == IF env.basicOK THEN "basic" ELSE NoStore

\* self.vectorstore after initialize_components
InitialStore(env) ==
    IF Load_medical_book(env) # NoStore THEN Load_medical_book(env)
    ELSE Load_basic_knowledge(env)

\* GroqMedicalChatbot.__init__ / initialize_components
Groq_initialize_components(env) ==
    [groq_available |-> Groq_initialize_groq(env).groq_available,
     llm |-> Groq_initialize_groq(env).llm,
     vectorstore |-> InitialStore(env)]

\* working_chain.MedicalChatbot.__init__ / initialize_components (no llm fields)
Working_initialize_components(env) ==
    [groq_available |-> FALSE, llm |-> NoLLM, vectorstore |-> InitialStore(env)]

\* EnhancedMedicalChatbot.__init__ / initialize_components: groq_available is
\* GROQ_AVAILABLE (the import of langchain_groq) unless ChatGroq raises
Enhanced_initialize_components(env) ==
    [groq_available |-> env.groqLib /\ env.probes[1] # "ctor",
     llm |-> IF env.groqLib /\ env.probes[1] # "ctor" THEN EnhancedModelName ELSE NoLLM,
     vectorstore |-> InitialStore(env)]

\* updated_chain.MedicalChatbot.__init__ / initialize_components: the store is built
\* outside any try block, so an object that exists has one
Updated_initialize_components(env) ==
    [groq_available |-> FALSE, llm |-> NoLLM, vectorstore |-> "basic"]

\* app.BasicMedicalChatbot has no fields
Basic_initialize_components(env) ==
    [groq_available |-> FALSE, llm |-> NoLLM, vectorstore |-> NoStore]

\* a binding that prefers working_chain to groq_chain
AppBindingWorkingFirst(env) ==
    IF env.workingImport THEN "working"
    ELSE IF env.groqImport THEN "groq"
    ELSE "basic"

\* the class app.py binds to MedicalChatbot (app.py:8-21)
AppBinding(env) ==
    IF env.groqImport THEN "groq"
    ELSE IF env.workingImport THEN "working"
    ELSE "basic"

\* MedicalChatbot() raises for every class
ConstructRaisesAlways(v, env) == ~env.basicOK

\* whether MedicalChatbot() of the class v raises: the classes with a
\* _load_basic_knowledge catch every exception of their start-up steps, while
\* updated_chain builds its embeddings and its store outside any try block
ConstructRaises(v, env) == v = "updated" /\ ~env.basicOK

\* MedicalChatbot() of the class v
Construct(v, env) ==
    CASE v = "groq" -> Groq_initialize_components(env)
      [] v = "working" -> Working_initialize_components(env)
      [] v = "enhanced" -> Enhanced_initialize_components(env)
      [] v = "updated" -> Updated_initialize_components(env)
      [] v = "basic" -> Basic_initialize_components(env)

\* chatbot.get_response(user_message) of the class v
GetResponse(v, self, user_message, w) ==
    CASE v = "groq" -> Groq_get_response(self, user_message, w)
      [] v = "working" -> Working_get_response(self, user_message, w)
      [] v = "enhanced" -> Enhanced_get_response(self, user_message, w)
      [] v = "updated" -> Updated_get_response(self, user_message, w)
      [] v = "basic" -> Basic_get_response(self, user_message, w)

(***************************************************************************)
(* app.chat: POST /chat                                                    *)
(***************************************************************************)

\* what is seen of a request in which get_response was not called
NotCalled ==
    [called |-> FALSE, arg |-> "", ret |-> "", raised |-> FALSE, caught |-> FALSE,
     emergency |-> None, searches |-> 0, invokes |-> 0, prompts |-> <<>>]

\* what is seen of a call get_response(arg) that returned or raised as r tells
Called(arg, r) ==
    [called |-> TRUE, arg |-> arg, ret |-> r.ret, raised |-> r.raised,
     caught |-> r.caught, emergency |-> r.emergency, searches |-> r.searches,
     invokes |-> r.invokes, prompts |-> r.prompts]

NoReply == [response |-> "", status |-> "", http |-> 0]

\* the message taken without .strip()
ChatMessageUnstripped(body) ==
    IF body.kind \in {"nojson", "null"} THEN None
    ELSE IF body.kind = "nokey" THEN Some("")
    ELSE Some(body.text)

\* a message that is not a string taken as the empty message ((message or '').strip())
ChatMessageNullAsEmpty(body) ==
    IF body.kind = "nojson" THEN None
    ELSE IF body.kind \in {"nokey", "null"} THEN Some(Strip(""))
    ELSE Some(Strip(body.text))

\* request.json.get('message', '').strip(): body.kind is "nojson" (request.json
\* raises), "nokey" (no message key: the default ''), "null" (the message is not a
\* string: .strip raises) or "str"
ChatMessage(body) ==
    IF body.kind \in {"nojson", "null"} THEN None
    ELSE IF body.kind = "nokey" THEN Some(Strip(""))
    ELSE Some(Strip(body.text))

\* chat that strips the answer as well (response.strip())
chatAnswerStripped(user_message, r) ==
    IF r.raised
    THEN [reply |-> [response |-> GenericError, status |-> "error", http |-> 500],
          call |-> Called(user_message, r)]
    ELSE [reply |-> [response |-> Strip(r.ret), status |-> "success", http |-> 200],
          call |-> Called(user_message, r)]

\* response = chatbot.get_response(user_message) and the reply made of it; a call that
\* raises is answered by the except branch of chat
chatAnswer(user_message, r) ==
    IF r.raised
    THEN [reply |-> [response |-> GenericError, status |-> "error", http |-> 500],
          call |-> Called(user_message, r)]
    ELSE [reply |-> [response |-> r.ret, status |-> "success", http |-> 200],
          call |-> Called(user_message, r)]

\* app.chat: the reply and what was seen of the call of get_response
chat(v, self, body, w) ==
    LET user_message == ChatMessage(body)
    IN  IF user_message = None
        THEN [reply |-> [response |-> GenericError, status |-> "error", http |-> 500],
              call |-> NotCalled]
        ELSE IF user_message[1] = ""
        THEN [reply |-> [response |-> EmptyPrompt, status |-> "error", http |-> 200],
              call |-> NotCalled]
        ELSE chatAnswer(user_message[1], GetResponse(v, self, user_message[1], w))

(***************************************************************************)
(* book_processor.MedicalBookProcessor: the ingestion of the book.  A      *)
(* Document is its page_content.  A regular expression is modelled by the  *)
(* matches re finds: the leftmost match from the current position, then on *)
(* from its end.                                                           *)
(***************************************************************************)

\* book_processor.py:27: len(text) < 100
BookMinText == 100

\* book_processor.py:95: len(disease_content) > 100
BookMinContent == 100

\* book_processor.py:128: len(current_chunk) > 300
BookSubstantialChunk == 300

\* book_processor.py:135: len(current_chunk) > 100
BookMinChunk == 100

\* book_processor.py:101: len(documents) < 50
BookFewDocuments == 50

\* book_processor.py:106: len(para) > 200
BookMinParagraph == 200

\* book_processor.py:106: len(para) < 1500
BookMaxParagraph == 1500

IsUpper(c) == c \in DOMAIN LowerOf

\* \w of one character
IsWord(c) ==
    \/ c \in DOMAIN LowerOf
    \/ c \in {LowerOf[u] : u \in DOMAIN LowerOf}
    \/ c \in {"0", "1", "2", "3", "4", "5", "6", "7", "8", "9", "_"}

\* one step of a scan that stands at position i: the first match that starts at i or
\* later, and the position after its end; nothing when there is none
ScanStepTo(endOf, i, later) ==
    IF later = {} THEN [ms |-> <<>>, i |-> i]
    ELSE [ms |-> <<SetMin(later)>>, i |-> endOf[SetMin(later)] + 1]

ScanStep(starts, endOf, i) == ScanStepTo(endOf, i, {p \in starts : p >= i})

\* n steps of a scan from position i, by halves, so that the recursion depth is
\* logarithmic in the number of matches
ScanJoin(a, b) == [ms |-> a.ms \o b.ms, i |-> b.i]

RECURSIVE ScanSteps(_, _, _, _)
ScanAfter(starts, endOf, a, n) == ScanJoin(a, ScanSteps(starts, endOf, a.i, n))

ScanSteps(starts, endOf, i, n) ==
    IF n = 0 THEN [ms |-> <<>>, i |-> i]
    ELSE IF n = 1 THEN ScanStep(starts, endOf, i)
    ELSE ScanAfter(starts, endOf, ScanSteps(starts, endOf, i, n \div 2), n - n \div 2)

\* the matches of a scan in text order: starts are the positions where the pattern
\* matches, endOf[p] the last position of the match that starts at p.  A scan takes
\* the first match at or after its position and goes on after the end of it.
Scan(starts, endOf, i) == ScanSteps(starts, endOf, i, Cardinality(starts)).ms

\* s[a-1:b] (1-based, both ends included), '' when the range is empty
Slice(s, a, b) == IF a > b THEN "" ELSE SubSeq(s, a, b)

\* re.split of a pattern in one capturing group: the pieces between the matches ms
\* alternate with the matched texts
SplitKeeping(text, ms, endOf) ==
    [j \in 1..(2 * Len(ms) + 1) |->
        IF j % 2 = 1
        THEN Slice(text,
                   IF j = 1 THEN 1 ELSE endOf[ms[(j - 1) \div 2]] + 1,
                   IF j = 2 * Len(ms) + 1 THEN Len(text) ELSE ms[(j + 1) \div 2] - 1)
        ELSE SubSeq(text, ms[j \div 2], endOf[ms[j \div 2]])]

\* re.split of a pattern without a group: the pieces between the matches only
SplitDropping(text, ms, endOf) ==
    [k \in 1..(Len(ms) + 1) |->
        Slice(text,
              IF k = 1 THEN 1 ELSE endOf[ms[k - 1]] + 1,
              IF k = Len(ms) + 1 THEN Len(text) ELSE ms[k] - 1)]

\* (?:disease|syndrome|disorder|condition|cancer|itis)
DiseaseSuffixes == {"disease", "syndrome", "disorder", "condition", "cancer", "itis"}

\* text has the string t at position q
HasAt(text, q, t) == q + Len(t) - 1 <= Len(text) /\ SubSeq(text, q, q + Len(t) - 1) = t

\* the positions of text where one of the suffixes starts
SuffixPositions(text) ==
    {q \in 1..Len(text) : CharAt(text, q) \in {"d", "s", "c", "i"}
                          /\ \E t \in DiseaseSuffixes : HasAt(text, q, t)}

\* the last position of the suffix that starts at q
SuffixEnd(text, q) == q - 1 + Len(CHOOSE t \in DiseaseSuffixes : HasAt(text, q, t))

\* the first position of the run of [A-Z\s] characters that ends at r (r + 1 when
\* the character at r is not one)
RunBack(text, r) ==
    IF \A j \in 1..r : IsUpper(CharAt(text, j)) \/ IsSpace(CharAt(text, j)) THEN 1
    ELSE 1 + CHOOSE j \in 1..r :
                 /\ ~(IsUpper(CharAt(text, j)) \/ IsSpace(CharAt(text, j)))
                 /\ \A k \in (j + 1)..r : IsUpper(CharAt(text, k)) \/ IsSpace(CharAt(text, k))

\* [A-Z][A-Z\s]+(?:...) matches at p exactly when p holds an upper-case letter and
\* is followed by a run of one or more [A-Z\s] characters that ends where a suffix
\* starts (a suffix starts with a lower-case letter, so the run cannot end sooner).
\* The function gives, for every such p, the last position of the match.
DiseaseMatches(text) ==
    LET S == SuffixPositions(text)
        M == UNION {{p \in RunBack(text, q - 1)..(q - 2) : IsUpper(CharAt(text, p))} :
                    q \in S}
    IN  [p \in M |-> SuffixEnd(text, SetMin({q \in S : q > p}))]

\* re.split(disease_pattern, text)
SplitDiseases(text) ==
    SplitKeeping(text, Scan(DOMAIN DiseaseMatches(text), DiseaseMatches(text), 1),
                 DiseaseMatches(text))

\* (?:Symptoms|Causes|Treatment|Diagnosis|Prevention|Prognosis), lower-cased
SectionWords == {"symptoms", "causes", "treatment", "diagnosis", "prevention", "prognosis"}

\* \b(?:...)\b with re.IGNORECASE: for every position where a section word stands
\* between two word boundaries, the last position of the word
SectionMatches(content) ==
    LET At(p, t) == /\ p + Len(t) - 1 <= Len(content)
                    /\ Lower(SubSeq(content, p, p + Len(t) - 1)) = t
                    /\ (p = 1 \/ ~IsWord(CharAt(content, p - 1)))
                    /\ (p + Len(t) > Len(content) \/ ~IsWord(CharAt(content, p + Len(t))))
        M == {p \in 1..Len(content) :
                /\ LowerChar(CharAt(content, p)) \in {"s", "c", "t", "d", "p"}
                /\ \E t \in SectionWords : At(p, t)}
    IN  [p \in M |-> p - 1 + Len(CHOOSE t \in SectionWords : At(p, t))]

\* re.split(r'(\b(?:...)\b)', content, flags=re.IGNORECASE)
SplitSections(content) ==
    SplitKeeping(content, Scan(DOMAIN SectionMatches(content), SectionMatches(content), 1),
                 SectionMatches(content))

\* a loop that closes the chunk at every section header, whatever its length
RECURSIVE SplitLoopAlwaysClosing(_, _, _, _, _)
SplitLoopAlwaysClosing(sections, disease_name, i, current_chunk, chunks) ==
    IF i > Len(sections)
    THEN IF Len(current_chunk) > BookMinChunk
         THEN Append(chunks, Strip(current_chunk)) ELSE chunks
    ELSE IF i % 2 = 1
    THEN SplitLoopAlwaysClosing(sections, disease_name, i + 1,
                                IF Strip(sections[i]) # "" THEN current_chunk \o sections[i]
                                ELSE current_chunk,
                                chunks)
    ELSE SplitLoopAlwaysClosing(sections, disease_name, i + 1,
                                disease_name \o " - " \o sections[i] \o "\n\n",
                                Append(chunks, Strip(current_chunk)))

\* the loop of _split_disease_content from the piece i on (the pieces of Python's even
\* indices are content, those of the odd ones section headers), and the last chunk
RECURSIVE SplitLoop(_, _, _, _, _)
SplitLoop(sections, disease_name, i, current_chunk, chunks) ==
    IF i > Len(sections)
    THEN IF Len(current_chunk) > BookMinChunk
         THEN Append(chunks, Strip(current_chunk)) ELSE chunks
    ELSE IF i % 2 = 1
    THEN SplitLoop(sections, disease_name, i + 1,
                   IF Strip(sections[i]) # "" THEN current_chunk \o sections[i]
                   ELSE current_chunk,
                   chunks)
    ELSE IF Len(current_chunk) > BookSubstantialChunk
    THEN SplitLoop(sections, disease_name, i + 1,
                   disease_name \o " - " \o sections[i] \o "\n\n",
                   Append(chunks, Strip(current_chunk)))
    ELSE SplitLoop(sections, disease_name, i + 1,
                   current_chunk \o sections[i] \o "\n\n", chunks)

\* MedicalBookProcessor._split_disease_content
Split_disease_content(content, disease_name) ==
    SplitLoop(SplitSections(content), disease_name, 1, disease_name \o "\n\n", <<>>)

\* an entry chunked whatever the length of its content
DiseaseChunksAnyLength(sections, i) ==
    IF Len(sections[i + 1]) > 0
    THEN Split_disease_content(sections[i + 1], Strip(sections[i]))
    ELSE <<>>

\* disease_chunks of the disease entry whose name is the piece i of sections: none
\* when the content after the name is not longer than BookMinContent
DiseaseChunks(sections, i) ==
    IF Len(sections[i + 1]) > BookMinContent
    THEN Split_disease_content(sections[i + 1], Strip(sections[i]))
    ELSE <<>>

\* disease_chunks of every entry, in the order of the loop of method 1
EntryChunks(sections) ==
    [k \in 1..((Len(sections) - 1) \div 2) |-> DiseaseChunks(sections, 2 * k)]

\* documents.extend(disease_chunks) for every entry
RECURSIVE Extend(_)
Extend(entries) ==
    IF Len(entries) = 0 THEN <<>>
    ELSE IF Len(entries) = 1 THEN entries[1]
    ELSE Extend(SubSeq(entries, 1, Len(entries) \div 2))
         \o Extend(SubSeq(entries, Len(entries) \div 2 + 1, Len(entries)))

\* the last position of the white-space run that starts at r (r - 1 when there is none)
RunForward(text, r) ==
    IF \A j \in r..Len(text) : IsSpace(CharAt(text, j)) THEN Len(text)
    ELSE (CHOOSE j \in r..Len(text) :
              /\ ~IsSpace(CharAt(text, j))
              /\ \A k \in r..(j - 1) : IsSpace(CharAt(text, k))) - 1

\* \n\s*\n matches at a line feed that has another line feed in the white space after
\* it, and ends at the last such line feed
ParagraphBreaks(text) ==
    LET Feeds(p) == {j \in (p + 1)..RunForward(text, p + 1) : CharAt(text, j) = "\n"}
        M == {p \in 1..Len(text) : CharAt(text, p) = "\n" /\ Feeds(p) # {}}
    IN  [p \in M |-> SetMax(Feeds(p))]

\* re.split(r'\n\s*\n', text)
SplitParagraphs(text) ==
    SplitDropping(text, Scan(DOMAIN ParagraphBreaks(text), ParagraphBreaks(text), 1),
                  ParagraphBreaks(text))

\* a test that keeps every paragraph longer than BookMinParagraph
ParagraphKeptLoose(para) == Len(para) > BookMinParagraph

\* the test of a stripped paragraph in method 2
ParagraphKept(para) ==
    /\ Len(para) > BookMinParagraph /\ Len(para) < BookMaxParagraph
    /\ ~AnyIn(Lower(para), {"contents", "index", "volume", "chapter"})

\* method 2 of _better_medical_split: the stripped paragraphs that pass the test
ParagraphDocuments(text) ==
    SelectSeq([k \in 1..Len(SplitParagraphs(text)) |-> Strip(SplitParagraphs(text)[k])],
              ParagraphKept)

\* a backup that replaces the documents of method 1 by the paragraphs
Better_medical_split_Replacing(text, sections, entries, diseases) ==
    [sections |-> sections,
     entries |-> entries,
     diseases |-> diseases,
     backup |-> Len(diseases) < BookFewDocuments,
     documents |-> IF Len(diseases) < BookFewDocuments
                   THEN ParagraphDocuments(text) ELSE diseases]

\* the end of _better_medical_split, from the test of len(documents) on: diseases
\* are the documents of method 1, backup tells whether method 2 ran
Better_medical_split_of(text, sections, entries, diseases) ==
    [sections |-> sections,
     entries |-> entries,
     diseases |-> diseases,
     backup |-> Len(diseases) < BookFewDocuments,
     documents |-> IF Len(diseases) < BookFewDocuments
                   THEN diseases \o ParagraphDocuments(text) ELSE diseases]

\* _better_medical_split once re.split has given sections
Better_medical_split_from(text, sections, entries) ==
    Better_medical_split_of(text, sections, entries, Extend(entries))

\* MedicalBookProcessor._better_medical_split: the documents returned, with what
\* re.split gave (sections), disease_chunks of every entry (entries), the documents
\* of method 1 (diseases) and whether method 2 ran (backup)
Better_medical_split(text) ==
    Better_medical_split_from(text, SplitDiseases(text), EntryChunks(SplitDiseases(text)))

(***************************************************************************)
(* Bounds and inputs                                                       *)
(***************************************************************************)

\* candidate models of _initialize_groq that can be built; the later ones of the
\* list raise in ChatGroq
ProbeDepth == 2

\* copies of BookLine in the long book chunk (more than GroqContextBudget characters)
LongChunkLines == 12

\* n copies of s, by halving
RECURSIVE Repeat(_, _)
Repeat(s, n) ==
    IF n = 0 THEN ""
    ELSE IF n % 2 = 1 THEN s \o Repeat(s, n - 1)
    ELSE Repeat(s \o s, n \div 2)

BookLine == "The pancreas makes insulin and the liver stores glucose for later use\n"

\* chunks of an ingested book, as load_medical_book stores them
BookDiabetes == "DIABETES MELLITUS\n\nDiabetes mellitus is a chronic disease in which the body cannot regulate blood sugar. Symptoms are thirst and frequent urination! Treatment is insulin and a careful diet."

BookContents == "Table of Contents for this volume\nshort line\n   Index   "

BookShort == "Rest. Drink! Ok? Sleep well."

BookLong == Repeat(BookLine, LongChunkLines) \o "Insulin lowers the blood sugar."

\* the results a search of the persisted store is given (an empty store gives [])
BookResults == {<<>>, <<BookDiabetes>>, <<BookContents>>, <<BookShort>>,
                <<BookShort, BookContents>>,
                <<BookLong, BookDiabetes>>, <<BookDiabetes, BookShort, BookLong>>,
                <<BookLong, BookLong, BookLong>>}

\* k consecutive documents of the in-memory store from document i on, cyclically
Window(store, i, k) == [j \in 1..k |-> store[((i + j - 2) % Len(store)) + 1]]

\* the results a search of the in-memory store is given
BasicResults(store, k) == {Window(store, i, k) : i \in 1..Len(store)}

BasicMedical(v) ==
    CASE v = "groq" -> GroqBasicMedical
      [] v = "working" -> WorkingBasicMedical
      [] v = "enhanced" -> EnhancedBasicMedical
      [] v = "updated" -> UpdatedMedicalKnowledge

KOf(v) ==
    CASE v = "groq" -> GroqK
      [] v = "working" -> WorkingK
      [] v = "enhanced" -> EnhancedK
      [] v = "updated" -> UpdatedK

SearchRaises == [raised |-> TRUE, docs |-> <<>>]

\* the outcomes of self.vectorstore.similarity_search(query, k)
SearchOutcomes(v, self) ==
    IF v = "basic" \/ self.vectorstore = NoStore THEN {SearchRaises}
    ELSE {SearchRaises} \cup
         {[raised |-> FALSE, docs |-> d] :
            d \in IF self.vectorstore = "book"
                  THEN {r \in BookResults : Len(r) <= KOf(v)}
                  ELSE BasicResults(BasicMedical(v), KOf(v))}

LLMRaises == [raised |-> TRUE, content |-> ""]

Completions == {"Diabetes is a chronic condition. See a doctor.", "",
                "  An answer with white space around it \n"}

\* the outcomes of self.llm.invoke(prompt)
LLMOutcomes(v, self) ==
    IF v \in {"groq", "enhanced"} /\ self.groq_available
    THEN {LLMRaises} \cup {[raised |-> FALSE, content |-> c] : c \in Completions}
    ELSE {LLMRaises}

\* the worlds of one request.  A second search is made only by GroqMedicalChatbot
\* after a completion call that raised; elsewhere the second outcome is never read and
\* repeats the first.
Worlds(v, self) ==
    LET SO == SearchOutcomes(v, self)
        LO == LLMOutcomes(v, self)
    IN  {[search |-> <<o1, o1>>, llm |-> l] : o1 \in SO, l \in LO}
        \cup (IF v = "groq" /\ self.groq_available
              THEN {[search |-> <<o1, o2>>, llm |-> LLMRaises] : o1 \in SO, o2 \in SO}
              ELSE {})

Messages == {"", "   ", " \n\t ", "What is diabetes?", "I have chest pain",
             "CHEST PAIN and a Stroke", "backstroke swimming tips",
             "heart attack with chest pain", "Compare diabetes treatments",
             "heart health", "cancer screening", "how to sleep better",
             "  fever and cough  ", "thoughts of suicide",
             "what are symptoms of asthma", "Stroke",
             "Heart disease and diabetes", "Does the liver store insulin?"}

Bodies == {[kind |-> k, text |-> ""] : k \in {"nojson", "nokey", "null"}}
          \cup {[kind |-> "str", text |-> m] : m \in Messages}

Keys == {None, Some(""), Some("sk-live-123"), Some("gsk_abc123")}

ProbeOutcomes == {"ctor", "invoke", "READY", "other"}

Classes == {"groq", "working", "enhanced", "updated"}

\* entries of the long books given to _better_medical_split
EntryBound == 50

Sentence == "The pancreas makes insulin and the liver stores glucose for later use. "

\* a paragraph the backup of _better_medical_split keeps
Paragraph == Repeat(Sentence, 3)

\* an entry of a book: a name the disease pattern matches, then one paragraph
Entry == "A disease\n\n" \o Paragraph \o "\n\n"

OneEntryText == "HEART disease\n" \o Repeat(Sentence, 2)

\* beginnings of a text: none, names the disease pattern matches (upper-case letters
\* and white space, then a lower-case suffix) and names it does not match
Headings == {"", "HEART disease", "ARTHRitis", "DOWN\nsyndrome", "Heart disease",
             "DIABETES MELLITUS"}

\* what follows a name: nothing, a short note, white space only, plain sentences,
\* sections with headers (short ones, long ones, a last one of a few words), and
\* paragraphs of which one names a chapter
Contents ==
    {"", "\nA short note on it.", Repeat(" ", 120), "\n" \o Repeat(Sentence, 2),
     "\nSymptoms: " \o Sentence \o "Causes: unknown",
     "\n" \o Repeat(Sentence, 5) \o "Symptoms are thirst. " \o Repeat(Sentence, 2)
          \o "TREATMENT is rest.",
     "\n" \o Repeat(Sentence, 5) \o "Prognosis: good.",
     "\n\n" \o Paragraph \o "\n\n" \o "This chapter: " \o Paragraph \o "\n \n" \o "short"}

\* the texts extracted from a book
Texts ==
    {h \o c : h \in Headings, c \in Contents}
    \cup {"HEART disease" \o c1 \o "LUNG cancer" \o c2 : c1 \in Contents, c2 \in Contents}
    \cup {Repeat(Entry, EntryBound - 1), Repeat(Entry, EntryBound)}

\* The environment of a start-up is a record [groqLib, key, probes, db, basicOK]:
\* whether langchain_groq imports, GROQ_API_KEY, what each candidate model does, the
\* state of ./medical_book_db and whether the in-memory store can be built.  A class
\* is given only the choices it reads; what it does not read is held at a default.
LibChoices(v) == IF v \in {"groq", "enhanced"} THEN BOOLEAN ELSE {FALSE}

KeyChoices(v) == IF v = "groq" THEN Keys ELSE {None}

DbChoices(v) == IF v \in {"groq", "working", "enhanced"} THEN {"absent", "broken", "ok"} ELSE {"absent"}

\* the state of ./medical_book_db a class finds in the installation
DbFound(v, installation) ==
    IF installation.tracked /\ v \in {"groq", "working", "enhanced"}
    THEN {installation.db} ELSE DbChoices(v)

BasicChoices(v) ==
    IF v \in {"groq", "working", "enhanced", "updated"} THEN BOOLEAN ELSE {FALSE}

ProbeChoices(v, gl, key) ==
    IF v = "groq" /\ gl /\ KeyValid(key)
    THEN {pr \in [1..Len(GroqModelNames) -> ProbeOutcomes] :
            \A i \in 1..Len(GroqModelNames) : i > ProbeDepth => pr[i] = "ctor"}
    ELSE IF v = "enhanced" /\ gl
    THEN {[i \in 1..Len(GroqModelNames) |-> o] : o \in {"ctor", "READY"}}
    ELSE {[i \in 1..Len(GroqModelNames) |-> "ctor"]}

\* The installation is a record [tracked, key, db].  When it is tracked, GROQ_API_KEY
\* and the state of ./medical_book_db are those it tells; when it is not, a start-up
\* finds any of them.
Dbs == {"absent", "broken", "ok"}

Untracked == [tracked |-> FALSE, key |-> None, db |-> "absent"]

Sites == [tracked : {TRUE}, key : Keys, db : Dbs]

\* the environments in which a chatbot of class v can start in the installation
Envs(v, installation) ==
    UNION {{[groqLib |-> c[1], key |-> c[2], probes |-> pr, db |-> c[3], basicOK |-> c[4]] :
              pr \in ProbeChoices(v, c[1], c[2])} :
           c \in LibChoices(v)
                 \X (IF installation.tracked /\ v = "groq"
                     THEN {installation.key} ELSE KeyChoices(v))
                 \X DbFound(v, installation)
                 \X BasicChoices(v)}

NoSelf == [groq_available |-> FALSE, llm |-> NoLLM, vectorstore |-> NoStore]

\* the outcomes of MedicalChatbot() of class v: the object built, or raised
Constructed(v, installation) ==
    {[raised |-> ConstructRaises(v, env),
      self |-> IF ConstructRaises(v, env) THEN NoSelf ELSE Construct(v, env)] :
       env \in Envs(v, installation)}

\* the text of a page without text ("scanned")
ScannedText == "Page 1"

\* A PDF file is a record [opens, pages]: whether open() and PyPDF2.PdfReader succeed,
\* and what page.extract_text() does on every page, in page order: it returns a text
\* (Some) or raises (None).
ScannedPdf == [opens |-> TRUE, pages |-> <<Some(""), Some(ScannedText)>>]

OneEntryPdf == [opens |-> TRUE, pages |-> <<Some(OneEntryText)>>]

UnreadablePdf == [opens |-> FALSE, pages |-> <<>>]

FailingPagePdf == [opens |-> TRUE, pages |-> <<Some(OneEntryText), None>>]

\* the file a script finds at the path of the book: none, or a PDF
ScriptBooks == {None, Some(ScannedPdf), Some(OneEntryPdf), Some(UnreadablePdf),
                Some(FailingPagePdf)}

\* The function applications observed one at a time: a record [step, done, env, text,
\* load, out] with the function, whether it has been applied, its input (an
\* environment, a text, or the input of load_medical_book) and its result.
NoEnv == [groqLib |-> FALSE, key |-> None,
          probes |-> [i \in 1..Len(GroqModelNames) |-> "ctor"], db |-> "absent",
          basicOK |-> FALSE]

\* input(): the line read, or nothing when standard input is at its end (EOFError)
EndOfInput == None

\* the folders of the scripts
Folders ==
    {<<>>,
     <<[name |-> "notes.pdf", pdf |-> OneEntryPdf]>>,
     <<[name |-> "Medical_book.pdf", pdf |-> ScannedPdf],
       [name |-> "TextBook.PDF", pdf |-> OneEntryPdf]>>,
     <<[name |-> "atlas.pdf", pdf |-> OneEntryPdf],
       [name |-> "medicine.pdf", pdf |-> FailingPagePdf]>>,
     <<[name |-> "book.txt", pdf |-> UnreadablePdf],
       [name |-> "scan.pdf", pdf |-> ScannedPdf]>>}

\* the answers to the numbered choice
Choices == {EndOfInput, Some(""), Some("1"), Some(" 2 "), Some("0"), Some("3"), Some("x")}

\* the answers to the typed path, with the file at that path
TypedPaths ==
    {EndOfInput,
     Some([line |-> "", file |-> None]),
     Some([line |-> "missing.pdf", file |-> None]),
     Some([line |-> " /books/atlas.pdf ", file |-> Some(OneEntryPdf)]),
     Some([line |-> "/scans/old.pdf", file |-> Some(ScannedPdf)])}

\* the input of load_medical_book: the directory, the file at book_path, and whether
\* the split and Chroma.from_documents return
NoLoad == [db |-> "absent", book |-> None, splitOK |-> TRUE, storeOK |-> TRUE]

Loads == [db : Dbs, book : ScriptBooks, splitOK : BOOLEAN, storeOK : BOOLEAN]

\* the rest of the input of a script: whether MedicalBookProcessor() can be built,
\* the folder, and the answers to the two prompts
NoRun == [embOK |-> TRUE, folder |-> <<>>, choice |-> None, typed |-> None]

NoTrial == [step |-> "none", done |-> FALSE, env |-> NoEnv, text |-> "", load |-> NoLoad,
            run |-> NoRun, out |-> <<>>]

\* the environments _initialize_groq and test_groq are applied in
ProbeEnvs ==
    {[groqLib |-> gl, key |-> key, probes |-> pr, db |-> "absent", basicOK |-> FALSE] :
       gl \in BOOLEAN, key \in Keys, pr \in ProbeChoices("groq", TRUE, Some("gsk_"))}

Trials ==
    {[NoTrial EXCEPT !.step = st, !.env = env] :
        st \in {"initialize_groq", "test_groq"}, env \in ProbeEnvs}
    \cup {[NoTrial EXCEPT !.step = "split", !.text = t] : t \in Texts}
    \cup {[NoTrial EXCEPT !.step = "load", !.load = l] : l \in Loads}
    \cup {[NoTrial EXCEPT !.step = "reprocess", !.load = l, !.run.embOK = e] :
            l \in Loads, e \in BOOLEAN}
    \cup {[NoTrial EXCEPT !.step = "setup", !.load = [NoLoad EXCEPT !.db = db, !.splitOK = l[1], !.storeOK = l[2]],
                          !.run = [embOK |-> e, folder |-> f, choice |-> c, typed |-> t]] :
            db \in Dbs, l \in BOOLEAN \X BOOLEAN, e \in BOOLEAN, f \in Folders,
            c \in Choices, t \in TypedPaths}

(***************************************************************************)
(* The state machine                                                       *)
(***************************************************************************)

VARIABLES
    phase,      \* "boot", "idle" (waiting for a request) or "replied"
    variant,    \* the chatbot class in use
    wired,      \* TRUE when the chatbot is app.py's
    self,       \* the chatbot's fields
    request,    \* the last request: its body and its world
    call,       \* what was seen of get_response in the last request
    reply,      \* the last reply
    site,       \* the installation: GROQ_API_KEY and ./medical_book_db
    trial,      \* a function application observed by itself
    imports,    \* what the imports of app.py did
    runs        \* ingestion runs that share ./medical_book_db, step by step

vars == <<phase, variant, wired, self, request, call, reply, site, trial, imports, runs>>

NoRequest == [body |-> [kind |-> "nokey", text |-> ""],
              w |-> [search |-> <<SearchRaises, SearchRaises>>, llm |-> LLMRaises]]

\* The imports of app.py: what the import of chatbot.groq_chain and that of
\* chatbot.working_chain did ("ok", "ImportError", or "untried" for an import statement
\* that was not reached)
NoImports == [groq |-> "untried", working |-> "untried"]

\* the import statements of app.py:8-16 executed where chatbot.groq_chain and
\* chatbot.working_chain can be imported as env tells: the second one is reached only
\* in the except branch of the first
AppImports(env) ==
    [groq |-> IF env.groqImport THEN "ok" ELSE "ImportError",
     working |-> IF env.groqImport THEN "untried"
                 ELSE IF env.workingImport THEN "ok" ELSE "ImportError"]

\* the ingestion runs that share the directory: none
NoRuns == <<>>

\* the state before anything ran, in the installation s, with the application t to
\* be observed
InitWith(s, t) ==
    /\ phase = "boot"
    /\ variant = "basic"
    /\ wired = FALSE
    /\ self = NoSelf
    /\ request = NoRequest
    /\ call = NotCalled
    /\ reply = NoReply
    /\ site = s
    /\ trial = t
    /\ imports = NoImports
    /\ runs = NoRuns

Init == InitWith(Untracked, NoTrial)

\* python app.py: the import fallback and chatbot = MedicalChatbot()
AppStart ==
    /\ phase = "boot"
    /\ \E groqImport \in BOOLEAN, workingImport \in BOOLEAN :
        LET v == AppBinding([groqImport |-> groqImport, workingImport |-> workingImport])
        IN  /\ variant' = v
            /\ imports' = AppImports([groqImport |-> groqImport,
                                      workingImport |-> workingImport])
            /\ \E o \in Constructed(v, site) :
                /\ self' = o.self
                /\ phase' = IF o.raised THEN "crashed" ELSE "idle"
    /\ wired' = TRUE
    /\ UNCHANGED <<request, call, reply, site, trial, runs>>

\* one of the chatbot classes built directly, outside app.py
ScriptStart ==
    /\ phase = "boot"
    /\ \E v \in Classes :
        /\ variant' = v
        /\ \E o \in Constructed(v, site) :
            /\ self' = o.self
            /\ phase' = IF o.raised THEN "crashed" ELSE "idle"
    /\ wired' = FALSE
    /\ UNCHANGED <<request, call, reply, site, trial, imports, runs>>

\* a handler that remembers a failed completion: it switches the hosted model off
ChatWithBreaker ==
    /\ phase = "idle"
    /\ wired
    /\ \E body \in Bodies, w \in Worlds(variant, self) :
        \E c \in {chat(variant, self, body, w)} :
            /\ request' = [body |-> body, w |-> w]
            /\ call' = c.call
            /\ reply' = c.reply
            /\ self' = IF c.call.invokes >= 1 /\ w.llm.raised
                       THEN [self EXCEPT !.groq_available = FALSE] ELSE self
    /\ phase' = "replied"
    /\ UNCHANGED <<variant, wired, site, trial, imports, runs>>

\* a handler that rebuilds the index: when a search raised it removes the store
ChatReindexing ==
    /\ phase = "idle"
    /\ wired
    /\ \E body \in Bodies, w \in Worlds(variant, self) :
        \E c \in {chat(variant, self, body, w)} :
            /\ request' = [body |-> body, w |-> w]
            /\ call' = c.call
            /\ reply' = c.reply
            /\ site' = IF c.call.searches >= 1 /\ w.search[1].raised
                       THEN [site EXCEPT !.db = "absent"] ELSE site
    /\ phase' = "replied"
    /\ UNCHANGED <<variant, wired, self, trial, imports, runs>>

\* POST /chat handled by app.chat
Chat ==
    /\ phase = "idle"
    /\ wired
    /\ \E body \in Bodies, w \in Worlds(variant, self) :
        \E c \in {chat(variant, self, body, w)} :
            /\ request' = [body |-> body, w |-> w]
            /\ call' = c.call
            /\ reply' = c.reply
    /\ phase' = "replied"
    /\ UNCHANGED <<variant, wired, self, site, trial, imports, runs>>

\* chatbot.get_response(message) called directly
Ask ==
    /\ phase = "idle"
    /\ ~wired
    /\ \E m \in Messages, w \in Worlds(variant, self) :
        /\ request' = [body |-> [kind |-> "str", text |-> m], w |-> w]
        /\ call' = Called(m, GetResponse(variant, self, m, w))
    /\ phase' = "replied"
    /\ UNCHANGED <<variant, wired, self, reply, site, trial, imports, runs>>

\* the reply is delivered; the process waits for the next request
Done ==
    /\ phase = "replied"
    /\ phase' = "idle"
    /\ request' = NoRequest
    /\ call' = NotCalled
    /\ reply' = NoReply
    /\ UNCHANGED <<variant, wired, self, site, trial, imports, runs>>

Next == AppStart \/ ScriptStart \/ Chat \/ Ask \/ Done

Spec == Init /\ [][Next]_vars

(***************************************************************************)
(* The life of an installation: the ingestion scripts run before the       *)
(* application starts, then the application serves requests.               *)
(***************************************************************************)

\* MedicalBookProcessor._extract_text_from_pdf: the texts of the pages, a line feed
\* after each; the empty text when opening the file or a page raises
Extract_text_from_pdf(pdf) ==
    IF ~pdf.opens \/ \E n \in 1..Len(pdf.pages) : pdf.pages[n] = None THEN ""
    ELSE Join([n \in 1..Len(pdf.pages) |-> pdf.pages[n][1] \o "\n"], "")

\* load_medical_book from the test of len(text) on
Processor_load_text(db, text, splitOK, storeOK) ==
    IF Len(text) < BookMinText
    THEN {[ret |-> NoStore, db |-> db, stored |-> FALSE, raised |-> FALSE, text |-> text]}
    ELSE IF ~splitOK
    THEN {[ret |-> NoStore, db |-> db, stored |-> FALSE, raised |-> FALSE, text |-> text]}
    ELSE IF storeOK
    THEN {[ret |-> "book", db |-> "ok", stored |-> TRUE, raised |-> FALSE, text |-> text]}
    ELSE {[ret |-> NoStore, db |-> d, stored |-> TRUE, raised |-> FALSE, text |-> text] :
             d \in {db, "broken"}}

\* a load_medical_book without its except branch: an exception of the split or of
\* Chroma.from_documents leaves the function
Processor_load_medical_book_Uncaught(db, book, splitOK, storeOK) ==
    IF book = None
    THEN {[ret |-> NoStore, db |-> db, stored |-> FALSE, raised |-> FALSE, text |-> ""]}
    ELSE IF Len(Extract_text_from_pdf(book[1])) >= BookMinText /\ ~(splitOK /\ storeOK)
    THEN {[ret |-> NoStore, db |-> db, stored |-> splitOK, raised |-> TRUE,
           text |-> Extract_text_from_pdf(book[1])]}
    ELSE Processor_load_text(db, Extract_text_from_pdf(book[1]), splitOK, storeOK)

\* MedicalBookProcessor.load_medical_book with ./medical_book_db in the state db:
\* book is None when nothing exists at book_path and the PDF file otherwise, splitOK
\* and storeOK tell whether _better_medical_split and Chroma.from_documents return
\* (an exception of either is caught).  The outcomes: what is returned, the directory
\* afterwards, whether Chroma.from_documents was called, whether an exception left
\* the function, and the text extracted.  The store holds the documents of
\* _better_medical_split; a failed from_documents may leave a directory behind.
Processor_load_medical_book(db, book, splitOK, storeOK) ==
    IF book = None
    THEN {[ret |-> NoStore, db |-> db, stored |-> FALSE, raised |-> FALSE, text |-> ""]}
    ELSE Processor_load_text(db, Extract_text_from_pdf(book[1]), splitOK, storeOK)

\* str.isdigit() over the ASCII characters
IsDigit(s) == Len(s) > 0 /\ \A i \in 1..Len(s) : Contains("0123456789", CharAt(s, i))

DigitValue(c) == CHOOSE d \in 0..9 : CharAt("0123456789", d + 1) = c

\* int(s) of a text of digits
RECURSIVE IntOf(_)
IntOf(s) ==
    IF Len(s) = 0 THEN 0
    ELSE 10 * IntOf(Part(s, 1, Len(s) - 1)) + DigitValue(CharAt(s, Len(s)))

\* The folder a script runs in is the sequence of its files in the order of
\* os.listdir('.'): each a record [name, pdf].  pdf_files keeps those whose
\* lower-cased name ends in .pdf.
Pdf_files(folder) == SelectSeq(folder, LAMBDA f : EndsWith(Lower(f.name), ".pdf"))

AutoKeywords == <<"medical", "book", "textbook", "medicine">>

\* any(keyword in pdf_file.lower() for keyword in [...])
LikelyBook(name) == \E k \in 1..Len(AutoKeywords) : Contains(Lower(name), AutoKeywords[k])

\* A run of an ingestion script is a record [ret, db, before, removed, loads, prompts]:
\* what it returned so far ("none" while it runs, "True", "False", or "raised" when an
\* exception left it), ./medical_book_db now and when it started, whether it removed
\* that directory, the calls of load_medical_book it made (the path and what was
\* returned), and the number of its input() prompts.
RunStart(db) == [ret |-> "none", db |-> db, before |-> db, removed |-> FALSE,
                 loads |-> <<>>, prompts |-> 0]

\* success = processor.load_medical_book(path); if success: return True
LoadStep(st, path, book, splitOK, storeOK) ==
    {[st EXCEPT !.db = o.db,
                !.loads = Append(@, [path |-> path, ret |-> o.ret]),
                !.ret = IF o.ret # NoStore THEN "True" ELSE "none"] :
        o \in Processor_load_medical_book(st.db, book, splitOK, storeOK)}

\* the for loop of setup_medical_book from the file i on: the files with a likely name
\* are loaded in listing order until a load succeeds
RECURSIVE AutoSelect(_, _, _, _, _)
AutoSelect(files, i, st, splitOK, storeOK) ==
    IF i > Len(files) THEN {st}
    ELSE IF ~LikelyBook(files[i].name) THEN AutoSelect(files, i + 1, st, splitOK, storeOK)
    ELSE UNION {IF s.ret = "True" THEN {s}
                ELSE AutoSelect(files, i + 1, s, splitOK, storeOK) :
                    s \in LoadStep(st, files[i].name, Some(files[i].pdf), splitOK, storeOK)}

\* the numbered choice, inside try/except: pass
NumberedChoice(files, st, choice, splitOK, storeOK) ==
    IF choice = EndOfInput THEN {[st EXCEPT !.prompts = @ + 1]}
    ELSE IF /\ Strip(choice[1]) # "" /\ IsDigit(Strip(choice[1]))
            /\ 0 <= IntOf(Strip(choice[1])) - 1
            /\ IntOf(Strip(choice[1])) - 1 < Len(files)
    THEN LoadStep([st EXCEPT !.prompts = @ + 1], files[IntOf(Strip(choice[1]))].name,
                  Some(files[IntOf(Strip(choice[1]))].pdf), splitOK, storeOK)
    ELSE {[st EXCEPT !.prompts = @ + 1]}

\* the typed path and the end of the function; typed is the line read and the file
\* that exists at the stripped line, if any
TypedPath(st, typed, splitOK, storeOK) ==
    IF typed = EndOfInput THEN {[st EXCEPT !.prompts = @ + 1, !.ret = "raised"]}
    ELSE IF Strip(typed[1].line) # "" /\ typed[1].file # None
    THEN {[s EXCEPT !.ret = IF s.ret = "True" THEN "True" ELSE "False"] :
             s \in LoadStep([st EXCEPT !.prompts = @ + 1], Strip(typed[1].line),
                            typed[1].file, splitOK, storeOK)}
    ELSE {[st EXCEPT !.prompts = @ + 1, !.ret = "False"]}

\* setup_medical_book after check_existing_book found no store
SetupSearch(files, st, choice, typed, splitOK, storeOK) ==
    IF files = <<>> THEN TypedPath(st, typed, splitOK, storeOK)
    ELSE UNION {IF a.ret = "True" THEN {a}
                ELSE UNION {IF c.ret = "True" THEN {c}
                            ELSE TypedPath(c, typed, splitOK, storeOK) :
                                c \in NumberedChoice(files, a, choice, splitOK, storeOK)} :
                    a \in AutoSelect(files, 1, st, splitOK, storeOK)}

\* setup_medical_book(): embOK tells whether MedicalBookProcessor() can build its
\* embeddings; check_existing_book returns the store when ./medical_book_db opens
Setup_medical_book(db, embOK, folder, choice, typed, splitOK, storeOK) ==
    IF ~embOK THEN {[RunStart(db) EXCEPT !.ret = "raised"]}
    ELSE IF db = "ok" THEN {[RunStart(db) EXCEPT !.ret = "True"]}
    ELSE SetupSearch(Pdf_files(folder), RunStart(db), choice, typed, splitOK, storeOK)

\* the rest of reprocess_medical_book once the directory is gone
ReprocessLoad(st, embOK, book, splitOK, storeOK) ==
    IF ~embOK THEN {[st EXCEPT !.ret = "raised"]}
    ELSE IF book = None THEN {[st EXCEPT !.ret = "False"]}
    ELSE {[s EXCEPT !.ret = IF s.ret = "True" THEN "True" ELSE "False"] :
             s \in LoadStep(st, "Medical_book.pdf", book, splitOK, storeOK)}

\* a reprocess_medical_book that looks for Medical_book.pdf before it removes anything
Reprocess_medical_book_CheckingFirst(db, embOK, book, splitOK, storeOK) ==
    IF embOK /\ book = None THEN {[RunStart(db) EXCEPT !.ret = "False"]}
    ELSE ReprocessLoad([RunStart(db) EXCEPT !.db = "absent", !.removed = db # "absent"],
                       embOK, book, splitOK, storeOK)

\* reprocess_medical_book(): ./medical_book_db is removed first, before the processor
\* is built and before Medical_book.pdf is looked for; book is the file of that name
Reprocess_medical_book(db, embOK, book, splitOK, storeOK) ==
    ReprocessLoad([RunStart(db) EXCEPT !.db = "absent", !.removed = db # "absent"],
                  embOK, book, splitOK, storeOK)

\* python setup_medical_book.py
SetupBook ==
    /\ phase = "boot"
    /\ site.tracked
    /\ \E embOK \in BOOLEAN, folder \in Folders, choice \in Choices, typed \in TypedPaths,
          splitOK \in BOOLEAN, storeOK \in BOOLEAN :
        \E r \in Setup_medical_book(site.db, embOK, folder, choice, typed, splitOK, storeOK) :
            site' = [site EXCEPT !.db = r.db]
    /\ UNCHANGED <<phase, variant, wired, self, request, call, reply, trial, imports, runs>>

\* python reprocess_book.py
ReprocessBook ==
    /\ phase = "boot"
    /\ site.tracked
    /\ \E embOK \in BOOLEAN, book \in ScriptBooks, splitOK \in BOOLEAN, storeOK \in BOOLEAN :
        \E r \in Reprocess_medical_book(site.db, embOK, book, splitOK, storeOK) :
            site' = [site EXCEPT !.db = r.db]
    /\ UNCHANGED <<phase, variant, wired, self, request, call, reply, trial, imports, runs>>

LifeInit == \E s \in Sites : InitWith(s, NoTrial)

LifeNext == SetupBook \/ ReprocessBook \/ AppStart \/ Chat \/ Done

Lifecycle == LifeInit /\ [][LifeNext]_vars

(***************************************************************************)
(* The set-up functions applied to one input                               *)
(***************************************************************************)

\* self._initialize_groq() in the environment of the trial
InitializeGroq ==
    /\ trial.step = "initialize_groq" /\ ~trial.done
    /\ trial' = [trial EXCEPT !.done = TRUE, !.out = Groq_initialize_groq(trial.env)]
    /\ UNCHANGED <<phase, variant, wired, self, request, call, reply, site, imports, runs>>

\* python test_groq.py in the environment of the trial
TestGroq ==
    /\ trial.step = "test_groq" /\ ~trial.done
    /\ trial' = [trial EXCEPT !.done = TRUE, !.out = Test_groq(trial.env)]
    /\ UNCHANGED <<phase, variant, wired, self, request, call, reply, site, imports, runs>>

\* self._better_medical_split(text) of the text of the trial
BetterMedicalSplit ==
    /\ trial.step = "split" /\ ~trial.done
    /\ trial' = [trial EXCEPT !.done = TRUE, !.out = Better_medical_split(trial.text)]
    /\ UNCHANGED <<phase, variant, wired, self, request, call, reply, site, imports, runs>>

\* processor.load_medical_book(book_path) on the input of the trial
LoadMedicalBook ==
    /\ trial.step = "load" /\ ~trial.done
    /\ \E o \in Processor_load_medical_book(trial.load.db, trial.load.book,
                                            trial.load.splitOK, trial.load.storeOK) :
          trial' = [trial EXCEPT !.done = TRUE, !.out = o]
    /\ UNCHANGED <<phase, variant, wired, self, request, call, reply, site, imports, runs>>

\* reprocess_medical_book() on the input of the trial
ReprocessMedicalBook ==
    /\ trial.step = "reprocess" /\ ~trial.done
    /\ \E r \in Reprocess_medical_book(trial.load.db, trial.run.embOK, trial.load.book,
                                        trial.load.splitOK, trial.load.storeOK) :
          trial' = [trial EXCEPT !.done = TRUE, !.out = r]
    /\ UNCHANGED <<phase, variant, wired, self, request, call, reply, site, imports, runs>>

\* setup_medical_book() on the input of the trial
SetupMedicalBook ==
    /\ trial.step = "setup" /\ ~trial.done
    /\ \E r \in Setup_medical_book(trial.load.db, trial.run.embOK, trial.run.folder,
                                    trial.run.choice, trial.run.typed,
                                    trial.load.splitOK, trial.load.storeOK) :
          trial' = [trial EXCEPT !.done = TRUE, !.out = r]
    /\ UNCHANGED <<phase, variant, wired, self, request, call, reply, site, imports, runs>>

TrialInit == \E t \in Trials : InitWith(Untracked, t)

TrialNext ==
    \/ InitializeGroq \/ TestGroq \/ BetterMedicalSplit
    \/ LoadMedicalBook \/ ReprocessMedicalBook \/ SetupMedicalBook

TrialSpec == TrialInit /\ [][TrialNext]_vars

(***************************************************************************)
(* Ingestion runs that share ./medical_book_db: every process opens the    *)
(* directory on its own, so the steps of two runs interleave at the calls  *)
(* that touch it.                                                          *)
(***************************************************************************)

\* the number of runs that share the directory
MaxRuns == 2

\* the books of the interleaved runs
RunBooks == {None, Some(ScannedPdf), Some(OneEntryPdf)}

\* A run is a record [kind, pc, ret, book, embOK, storeOK, writing, lostBy]: kind is
\* "reprocess" (reprocess_medical_book) or "load" (a call of load_medical_book, as
\* setup_medical_book makes); pc is the statement it is at; ret is what it returned
\* ("none" while it runs, "raised" when an exception left it); writing tells whether
\* its Chroma.from_documents has not started ("no"), has started ("begun") or has
\* returned ("finished"); lostBy is the run that removed the directory after this one
\* began to write, 0 when none did.
NewRun(kind, book, embOK, storeOK) ==
    [kind |-> kind, pc |-> IF kind = "reprocess" THEN "check" ELSE "extract",
     ret |-> "none", book |-> book, embOK |-> embOK, storeOK |-> storeOK,
     writing |-> "no", lostBy |-> 0]

\* the run returned a vector store, or True
Succeeded(run) == run.ret \in {"book", "True"}

\* return v from the run: load_medical_book returns the store or None, and
\* reprocess_medical_book turns that into True or False
Returned(run, v) ==
    [run EXCEPT !.pc = "done",
                !.ret = IF run.kind = "load" THEN v
                        ELSE IF v = NoStore THEN "False" ELSE "True"]

\* python reprocess_book.py, or a call of load_medical_book, begins
StartRun ==
    /\ phase = "boot" /\ site.tracked
    /\ Len(runs) < MaxRuns
    /\ \E kind \in {"reprocess", "load"}, book \in RunBooks, embOK \in BOOLEAN,
          storeOK \in BOOLEAN :
          \* an input that the run never reads is left at one value
          /\ kind = "load" => embOK
          /\ ~embOK => book = None
          /\ book # Some(OneEntryPdf) => storeOK
          /\ runs' = Append(runs, NewRun(kind, book, embOK, storeOK))
    /\ UNCHANGED <<phase, variant, wired, self, request, call, reply, site, trial, imports>>

\* reprocess_book.py:10  if os.path.exists("./medical_book_db")
CheckOld ==
    /\ \E i \in 1..Len(runs) :
          /\ runs[i].pc = "check"
          /\ runs' = [runs EXCEPT ![i].pc = IF site.db = "absent" THEN "build" ELSE "remove"]
    /\ UNCHANGED <<phase, variant, wired, self, request, call, reply, site, trial, imports>>

\* shutil.rmtree without a lock: the directory goes whatever the other runs wrote
Rmtree(rs, i) ==
    [j \in 1..Len(rs) |->
        IF j = i THEN [rs[j] EXCEPT !.pc = "build"]
        ELSE IF rs[j].writing # "no" /\ rs[j].lostBy = 0 THEN [rs[j] EXCEPT !.lostBy = i]
        ELSE rs[j]]

\* reprocess_book.py:11  shutil.rmtree("./medical_book_db"); it raises when another
\* run removed the directory since the test of line 10
RemoveOld ==
    /\ \E i \in 1..Len(runs) :
          /\ runs[i].pc = "remove"
          /\ IF site.db = "absent"
             THEN runs' = [runs EXCEPT ![i].pc = "done", ![i].ret = "raised"] /\ site' = site
             ELSE runs' = Rmtree(runs, i) /\ site' = [site EXCEPT !.db = "absent"]
    /\ UNCHANGED <<phase, variant, wired, self, request, call, reply, trial, imports>>

\* reprocess_book.py:14  processor = MedicalBookProcessor()
BuildProcessor ==
    /\ \E i \in 1..Len(runs) :
          /\ runs[i].pc = "build"
          /\ runs' = IF runs[i].embOK THEN [runs EXCEPT ![i].pc = "look"]
                     ELSE [runs EXCEPT ![i].pc = "done", ![i].ret = "raised"]
    /\ UNCHANGED <<phase, variant, wired, self, request, call, reply, site, trial, imports>>

\* reprocess_book.py:19  if not os.path.exists(book_file): return False
LookForBook ==
    /\ \E i \in 1..Len(runs) :
          /\ runs[i].pc = "look"
          /\ runs' = IF runs[i].book = None THEN [runs EXCEPT ![i] = Returned(@, NoStore)]
                     ELSE [runs EXCEPT ![i].pc = "extract"]
    /\ UNCHANGED <<phase, variant, wired, self, request, call, reply, site, trial, imports>>

\* load_medical_book up to the call of Chroma.from_documents
ExtractText ==
    /\ \E i \in 1..Len(runs) :
          /\ runs[i].pc = "extract"
          /\ runs' = IF \/ runs[i].book = None
                        \/ Len(Extract_text_from_pdf(runs[i].book[1])) < BookMinText
                     THEN [runs EXCEPT ![i] = Returned(@, NoStore)]
                     ELSE [runs EXCEPT ![i].pc = "write"]
    /\ UNCHANGED <<phase, variant, wired, self, request, call, reply, site, trial, imports>>

\* Chroma.from_documents starts: it creates the directory when there is none; a
\* failing one may raise before it wrote anything
BeginWrite ==
    /\ \E i \in 1..Len(runs) :
          /\ runs[i].pc = "write"
          /\ \/ /\ ~runs[i].storeOK
                /\ runs' = [runs EXCEPT ![i] = Returned(@, NoStore)]
                /\ site' = site
             \/ /\ runs' = [runs EXCEPT ![i].pc = "finish", ![i].writing = "begun"]
                /\ site' = [site EXCEPT !.db = IF @ = "absent" THEN "broken" ELSE @]
    /\ UNCHANGED <<phase, variant, wired, self, request, call, reply, trial, imports>>

\* a from_documents that returns the store and leaves no directory, as one that was
\* given no persist_directory
FinishWriteUnpersisted(run, db) ==
    {[run |-> Returned([run EXCEPT !.writing = "finished"], "book"), db |-> "absent"]}

\* Chroma.from_documents ends, the directory being db.  Undisturbed, it leaves a store
\* and returns it, or raises and leaves what it wrote.  When the directory was removed
\* after it began, it writes to files that are gone: it raises, or it returns the
\* store and leaves the directory as it is now, or with a part of its files.
FinishWrite(run, db) ==
    IF ~run.storeOK THEN {[run |-> Returned(run, NoStore), db |-> db]}
    ELSE IF run.lostBy = 0
    THEN {[run |-> Returned([run EXCEPT !.writing = "finished"], "book"), db |-> "ok"]}
    ELSE {[run |-> Returned(run, NoStore), db |-> db]}
         \cup {[run |-> Returned([run EXCEPT !.writing = "finished"], "book"), db |-> d] :
                  d \in {db, IF db = "absent" THEN "broken" ELSE db}}

\* the end of load_medical_book
EndWrite ==
    /\ \E i \in 1..Len(runs) :
          /\ runs[i].pc = "finish"
          /\ \E o \in FinishWrite(runs[i], site.db) :
                /\ runs' = [runs EXCEPT ![i] = o.run]
                /\ site' = [site EXCEPT !.db = o.db]
    /\ UNCHANGED <<phase, variant, wired, self, request, call, reply, trial, imports>>

IngestInit == \E s \in Sites : InitWith(s, NoTrial)

IngestNext ==
    \/ StartRun \/ CheckOld \/ RemoveOld \/ BuildProcessor \/ LookForBook
    \/ ExtractText \/ BeginWrite \/ EndWrite

Ingestion == IngestInit /\ [][IngestNext]_vars

(***************************************************************************)
(* Vocabulary of the claims                                                *)
(***************************************************************************)

EmergencyTable(v) ==
    CASE v = "groq" -> GroqEmergencies
      [] v = "working" -> WorkingEmergencies
      [] v = "enhanced" -> EnhancedEmergencies
      [] v = "updated" -> UpdatedEmergencies
      [] v = "basic" -> <<>>

EmergencySuffix(v) == IF v = "updated" THEN UpdatedCallToAction ELSE CallToAction

\* the items of v's table whose trigger occurs in the lower-cased query
Matching(v, query) ==
    {i \in 1..Len(EmergencyTable(v)) : Contains(Lower(query), EmergencyTable(v)[i][1])}

\* get_response was called in the last request, on an object of one of the four classes
Answered == phase = "replied" /\ call.called /\ variant \in Classes

\* the last request was a POST /chat that has been answered
Replied == phase = "replied" /\ wired

\* a similarity search, or the completion call, of the last request raised
SearchFailed ==
    \/ call.searches >= 1 /\ request.w.search[1].raised
    \/ call.searches >= 2 /\ request.w.search[2].raised

LLMFailed == call.invokes >= 1 /\ request.w.llm.raised

\* every character of s is white space (also when s is empty)
AllSpace(s) == \A i \in 1..Len(s) : IsSpace(CharAt(s, i))

(***************************************************************************)
(* C1                                                                      *)
(***************************************************************************)

\* C1: in each of the four classes, for a query whose lower-cased text contains a
\* trigger of the class's emergency table, get_response returns a string that begins
\* with the warning text of a trigger that occurs in the query, whatever the vector
\* store and the hosted LLM are.
C1_EmergencyBeginsWithWarning ==
    (Answered /\ Matching(variant, call.arg) # {}) =>
        \E i \in Matching(variant, call.arg) :
            StartsWith(call.ret, EmergencyTable(variant)[i][2])

\* an upper-case query with two triggers, answered by a chatbot that has a store and
\* a working LLM whose completion would have succeeded
C1_Witness ==
    /\ Answered /\ variant = "groq"
    /\ call.arg = "CHEST PAIN and a Stroke"
    /\ self.groq_available /\ self.vectorstore # NoStore
    /\ ~request.w.llm.raised /\ ~request.w.search[1].raised
    /\ StartsWith(call.ret, "# CHEST PAIN")

(***************************************************************************)
(* C2                                                                      *)
(***************************************************************************)

\* C2: a POST /chat whose message is empty or only white space is answered with the
\* text 'Please enter a medical question.' and status 'error', and get_response is not
\* called: no emergency check, no similarity search, no completion call.
C2_EmptyMessageRejected ==
    (Replied /\ request.body.kind \in {"str", "nokey"} /\ AllSpace(request.body.text)) =>
        /\ reply.response = EmptyPrompt
        /\ reply.status = "error"
        /\ ~call.called
        /\ call.searches = 0 /\ call.invokes = 0 /\ call.emergency = None

\* a message of blanks, newline and tab sent to a chatbot with a store and an LLM
C2_Witness ==
    /\ Replied /\ request.body.kind = "str" /\ request.body.text = " \n\t "
    /\ variant = "groq" /\ self.groq_available /\ self.vectorstore # NoStore
    /\ reply.response = EmptyPrompt

(***************************************************************************)
(* C3                                                                      *)
(***************************************************************************)

\* C3 as stated: every reply of POST /chat with status 'success' ends with the
\* disclaimer suffix, on every path through get_response (here for the two classes
\* the claim cites, GroqMedicalChatbot and working_chain's MedicalChatbot).
C3_Original ==
    (Replied /\ reply.status = "success" /\ variant \in {"groq", "working"})
        => EndsWith(reply.response, Disclaimer)

\* C3, amended: a reply with status 'success' ends with the disclaimer suffix when the
\* chatbot is GroqMedicalChatbot or working_chain's MedicalChatbot, no emergency trigger
\* matched and get_response did not take its except branch.  An emergency reply ends
\* with the call-to-action suffix and not with the disclaimer, the except branch of
\* working_chain returns its fixed text without the suffix, and BasicMedicalChatbot
\* returns its fixed text.
C3_SuccessEndsWithDisclaimer ==
    (Replied /\ reply.status = "success") =>
        IF variant = "basic" THEN reply.response = BasicReply
        ELSE IF Truthy(call.emergency)
        THEN EndsWith(reply.response, CallToAction) /\ ~EndsWith(reply.response, Disclaimer)
        ELSE IF call.caught
        THEN variant = "working" /\ reply.response = WorkingCaught
        ELSE EndsWith(reply.response, Disclaimer)

\* a sentence taken from a retrieved chunk, answered with the disclaimer at its end
C3_Witness ==
    /\ Replied /\ reply.status = "success" /\ variant = "groq"
    /\ ~Truthy(call.emergency) /\ call.searches = 1 /\ call.invokes = 0
    /\ request.body.text = "how to sleep better"
    /\ request.w.search[1].docs = <<BookDiabetes>>
    /\ EndsWith(reply.response, "..." \o Disclaimer)

(***************************************************************************)
(* C4                                                                      *)
(***************************************************************************)

\* the replies of v's emergency table
EmergencyReplies(v) ==
    {EmergencyTable(v)[i][2] \o EmergencySuffix(v) : i \in 1..Len(EmergencyTable(v))}

\* the hard-coded answers of class v: its keyword table with the disclaimer, the text
\* of its except branch and the replies of its emergency table
FixedStrings(v) ==
    EmergencyReplies(v) \cup
    CASE v = "groq" ->
            {GroqCompare, GroqDiabetes \o Disclaimer, GroqHeart \o Disclaimer,
             GroqCancer \o Disclaimer, GroqDefault \o Disclaimer, GroqCaught}
      [] v = "working" ->
            {t \o Disclaimer : t \in {WorkingDiabetes, WorkingHeart, WorkingCancer,
                WorkingAsthma, WorkingHeadache, WorkingFever, WorkingCold,
                WorkingPressure, WorkingAllergy, WorkingDefault}} \cup {WorkingCaught}
      [] v = "enhanced" ->
            {t \o Disclaimer : t \in {EnhancedDiabetes, EnhancedHeart, EnhancedCancer,
                EnhancedDefault}} \cup {EnhancedCaught}
      [] v = "updated" ->
            {t \o UpdatedDisclaimer : t \in {UpdatedHeadache, UpdatedFever, UpdatedCold,
                UpdatedPain, UpdatedDefault}} \cup {UpdatedCaught}

\* C4 as stated: with self.vectorstore None, get_response returns one of the fixed
\* hard-coded strings of the class and does not raise, whatever the hosted LLM does.
C4_Original ==
    (Answered /\ self.vectorstore = NoStore) =>
        ~call.raised /\ call.ret \in FixedStrings(variant)

\* C4, amended: with self.vectorstore None, get_response does not raise and makes no
\* similarity search, and it returns one of the fixed hard-coded strings of the class,
\* except in GroqMedicalChatbot with groq_available when no emergency trigger matches
\* and the completion call succeeds: then it returns the completion followed by the
\* disclaimer suffix.
C4_NoStoreFixedUnlessCompletion ==
    (Answered /\ self.vectorstore = NoStore) =>
        /\ ~call.raised
        /\ call.searches = 0
        /\ IF variant = "groq" /\ self.groq_available /\ ~Truthy(call.emergency)
              /\ ~request.w.llm.raised
           THEN call.invokes = 1 /\ call.ret = request.w.llm.content \o Disclaimer
           ELSE call.ret \in FixedStrings(variant)

\* without a store and with a completion call that raises, the keyword table answers
C4_Witness ==
    /\ Answered /\ self.vectorstore = NoStore
    /\ variant = "groq" /\ self.groq_available /\ request.w.llm.raised
    /\ call.arg = "heart health" /\ call.invokes = 1
    /\ call.ret = GroqHeart \o Disclaimer

(***************************************************************************)
(* C5                                                                      *)
(***************************************************************************)

GenericReply == [response |-> GenericError, status |-> "error", http |-> 500]

\* C5 as stated: any internal failure while handling POST /chat, a failure inside the
\* chatbot's retrieval or completion call included, is answered with the generic
\* message, status 'error' and HTTP 500.
C5_Original ==
    (Replied /\ (request.body.kind \in {"nojson", "null"} \/ SearchFailed \/ LLMFailed))
        => reply = GenericReply

\* C5, amended: an exception that reaches chat's own handler (request.json raises, or
\* the message is not a string) is answered with the generic message, status 'error'
\* and HTTP 500, and nothing else is; a failure inside the chatbot's retrieval or
\* completion call is caught inside get_response and answered with status 'success'
\* and HTTP 200.
C5_FailuresConverted ==
    Replied =>
        /\ (request.body.kind \in {"nojson", "null"}) => (reply = GenericReply /\ ~call.called)
        /\ (reply.http = 500) => (request.body.kind \in {"nojson", "null"})
        /\ (call.called /\ (SearchFailed \/ LLMFailed)) =>
              (~call.raised /\ reply.status = "success" /\ reply.http = 200)

\* a message that is not a string
C5_Witness ==
    /\ Replied /\ request.body.kind = "null" /\ reply = GenericReply
    /\ variant = "working" /\ self.vectorstore # NoStore

(***************************************************************************)
(* C6                                                                      *)
(***************************************************************************)

\* C6: every reply of POST /chat has a response string, a status 'success' or 'error'
\* and HTTP 200 or 500; HTTP 500 comes only with status 'error'; status 'success'
\* comes only with HTTP 200 and with the response being exactly what get_response
\* returned for the stripped message.
C6_ReplyShape ==
    Replied =>
        /\ reply.status \in {"success", "error"}
        /\ reply.http \in {200, 500}
        /\ (reply.http = 500) => (reply.status = "error")
        /\ (reply.status = "success") =>
              /\ reply.http = 200
              /\ request.body.kind = "str"
              /\ call.called
              /\ call.arg = Strip(request.body.text)
              /\ reply.response =
                    GetResponse(variant, self, Strip(request.body.text), request.w).ret

\* a padded message, answered through get_response of the stripped message
C6_Witness ==
    /\ Replied /\ reply.status = "success" /\ reply.http = 200
    /\ request.body.text = "  fever and cough  " /\ call.arg = "fever and cough"
    /\ variant = "working" /\ self.vectorstore = NoStore
    /\ reply.response = WorkingFever \o Disclaimer

(***************************************************************************)
(* C7                                                                      *)
(***************************************************************************)

\* the hard-coded diabetes sentence of class v (updated_chain has none)
DiabetesSentence(v) ==
    CASE v = "groq" -> GroqDiabetes
      [] v = "working" -> WorkingDiabetes
      [] v = "enhanced" -> EnhancedDiabetes
      [] v = "updated" -> ""

\* C7: with self.vectorstore None and no hosted LLM, get_response('What is diabetes?')
\* returns the class's hard-coded diabetes sentence immediately followed by the
\* disclaimer suffix, and makes no similarity search and no completion call.  (The
\* chatbot of updated_chain has no such sentence; it is never without a store.)
C7_DiabetesExample ==
    (Answered /\ call.arg = "What is diabetes?" /\ self.vectorstore = NoStore
        /\ ~self.groq_available) =>
        /\ variant # "updated"
        /\ call.ret = DiabetesSentence(variant) \o Disclaimer
        /\ call.searches = 0 /\ call.invokes = 0

\* the example asked of working_chain's chatbot through POST /chat
C7_Witness ==
    /\ Replied /\ call.called /\ variant = "working" /\ call.arg = "What is diabetes?"
    /\ self.vectorstore = NoStore
    /\ reply.response = WorkingDiabetes \o Disclaimer

(***************************************************************************)
(* C8                                                                      *)
(***************************************************************************)

\* C8: the emergency table is consulted before any retrieval: in each of the four
\* classes a query that matches an emergency trigger is answered without a call of
\* vectorstore.similarity_search and without a call of llm.invoke.
C8_EmergencyBeforeRetrieval ==
    (Answered /\ Matching(variant, call.arg) # {}) =>
        call.searches = 0 /\ call.invokes = 0 /\ call.prompts = <<>>

\* a trigger inside a longer word, asked of a chatbot with a store and a working LLM
C8_Witness ==
    /\ Answered /\ variant = "enhanced" /\ call.arg = "backstroke swimming tips"
    /\ self.groq_available /\ self.vectorstore = "book"
    /\ ~request.w.search[1].raised /\ Len(request.w.search[1].docs) > 0
    /\ ~request.w.llm.raised
    /\ call.searches = 0 /\ call.invokes = 0

(***************************************************************************)
(* C9                                                                      *)
(***************************************************************************)

\* C9: _check_medical_emergency returns the canned response of the first trigger, in
\* the table's definition order, that occurs as a substring anywhere in the lower-cased
\* query (inside a longer word too, and also when later triggers occur as well),
\* followed by the class's call-to-action suffix; it returns None exactly when no
\* trigger of the table occurs in the query.
C9_FirstTriggerInTableOrder ==
    Answered =>
        /\ (Matching(variant, call.arg) = {}) <=> (call.emergency = None)
        /\ (Matching(variant, call.arg) # {}) =>
              call.emergency =
                 Some(EmergencyTable(variant)[SetMin(Matching(variant, call.arg))][2]
                      \o EmergencySuffix(variant))

\* 'heart attack' comes first in the query, 'chest pain' comes first in the table
C9_Witness ==
    /\ Answered /\ variant = "working" /\ call.arg = "heart attack with chest pain"
    /\ Matching(variant, call.arg) = {1, 2}
    /\ call.emergency = Some(WorkingEmergencies[1][2] \o CallToAction)

(***************************************************************************)
(* C10                                                                     *)
(***************************************************************************)

\* the completion call of the last request was made and returned
Completed ==
    /\ Answered /\ variant \in {"groq", "enhanced"} /\ self.groq_available
    /\ ~Truthy(call.emergency) /\ ~request.w.llm.raised

\* C10 as stated: with a reachable hosted model and a query that matches no emergency
\* trigger, the retrieved chunks are interpolated into the fixed prompt, exactly one
\* completion request is sent and get_response returns the raw completion text
\* verbatim.
C10_Original ==
    Completed => call.invokes = 1 /\ call.ret = request.w.llm.content

\* the context the search of the last request gives the class
ContextOf(v) ==
    IF v = "groq" THEN Groq_get_medical_context(self, call.arg, request.w.search[1]).ctx
    ELSE Enhanced_get_medical_context(self, call.arg, request.w.search[1]).ctx

\* C10, amended: with a reachable hosted model and a query that matches no emergency
\* trigger, GroqMedicalChatbot sends exactly one completion request, whose prompt
\* holds the question and, when the cleaned context is not empty, its first 500
\* characters; EnhancedMedicalChatbot sends exactly one request, whose prompt holds
\* the question and the context, when retrieval gave a context, and none otherwise.
\* When a request is sent, get_response returns the completion text followed by the
\* disclaimer suffix; nothing else is prepended, appended or cut.
C10_CompletionPlusDisclaimer ==
    Completed =>
        IF variant = "groq" \/ Truthy(ContextOf(variant))
        THEN /\ call.invokes = 1 /\ Len(call.prompts) = 1
             /\ call.ret = request.w.llm.content \o Disclaimer
             /\ Contains(call.prompts[1], call.arg)
             /\ Truthy(ContextOf(variant)) =>
                   Contains(call.prompts[1],
                            IF variant = "groq"
                            THEN Take(ContextOf(variant)[1], GroqPromptBudget)
                            ELSE ContextOf(variant)[1])
             /\ (self.vectorstore = "basic" /\ call.searches = 1
                    /\ ~request.w.search[1].raised) =>
                   \A i \in 1..Len(request.w.search[1].docs) :
                       Contains(call.prompts[1], request.w.search[1].docs[i])
             /\ (variant = "groq" /\ request.w.search[1].docs = <<BookLong, BookDiabetes>>) =>
                   ~Contains(call.prompts[1], "Insulin lowers the blood sugar.")
        ELSE call.invokes = 0 /\ call.prompts = <<>>

\* a completion with white space around it, returned with the disclaimer after it,
\* for a prompt that holds the first 500 characters of a longer context
C10_Witness ==
    /\ Completed /\ variant = "groq" /\ call.arg = "how to sleep better"
    /\ request.w.search[1].docs = <<BookLong, BookDiabetes>> /\ ~request.w.search[1].raised
    /\ request.w.llm.content = "  An answer with white space around it \n"
    /\ call.invokes = 1
    /\ call.ret = "  An answer with white space around it \n" \o Disclaimer


(***************************************************************************)
(* C11                                                                     *)
(***************************************************************************)

\* no completion was obtained in the last request: the hosted model is not configured
\* (no call was made) or the call raised
NoCompletion == call.invokes = 0 \/ request.w.llm.raised

\* the outcome of the similarity search that a fallback answer of the last request is
\* made from: GroqMedicalChatbot searches a second time after a failed completion
FallbackSearch ==
    IF variant = "groq" /\ call.searches = 2 THEN request.w.search[2]
    ELSE request.w.search[1]

\* the retrieved text whose sentences the fallback of class v looks at
RetrievedText(v, docs) ==
    IF v = "groq" THEN Take(Join(GroqCleanContent(docs), "\n"), GroqContextBudget)
    ELSE IF v = "enhanced" THEN Take(Join(docs, "\n\n"), EnhancedContextBudget)
    ELSE docs[1]

SentenceThreshold(v) ==
    IF v = "groq" THEN GroqMinSentence
    ELSE IF v = "enhanced" THEN EnhancedMinSentence ELSE WorkingSubstantial

SentenceBudget(v) ==
    IF v = "groq" THEN GroqSentenceBudget
    ELSE IF v = "enhanced" THEN EnhancedSentenceBudget ELSE WorkingPartBudget

\* the positions of the sentences of text that are longer than n
LongSentences(text, n) ==
    {i \in 1..Len(SplitSentences(text)) : Len(SplitSentences(text)[i]) > n}

\* the first sentence of text longer than n (LongSentences(text, n) is not empty)
FirstLongSentence(text, n) == SplitSentences(text)[SetMin(LongSentences(text, n))]

\* a non-emergency query answered without a completion although the search of the
\* store returned at least one chunk
C11_Case ==
    /\ Answered /\ variant \in {"groq", "enhanced", "working"}
    /\ ~Truthy(call.emergency) /\ ~call.caught
    /\ NoCompletion
    /\ self.vectorstore # NoStore
    /\ ~FallbackSearch.raised /\ Len(FallbackSearch.docs) > 0

\* C11 as stated: without a completion and with at least one retrieved chunk, the
\* answer body of every non-emergency query is the first sentence of the retrieved
\* text longer than the variant's threshold, cut to the variant's budget (with or
\* without an ellipsis), followed by the disclaimer; the keyword table is not used.
C11_Original ==
    C11_Case =>
        /\ LongSentences(RetrievedText(variant, FallbackSearch.docs),
                         SentenceThreshold(variant)) # {}
        /\ \E e \in {"", "..."} :
              call.ret = Take(FirstLongSentence(RetrievedText(variant, FallbackSearch.docs),
                                                SentenceThreshold(variant)),
                              SentenceBudget(variant)) \o e \o Disclaimer

\* the sentences of content that _extract_most_relevant_part finds relevant to the
\* question: stripped, at least WorkingMinSentence long, and passing _is_relevant
RelevantOf(content, question) ==
    SelectSeq([i \in 1..Len(SplitSentences(content)) |-> Strip(SplitSentences(content)[i])],
              LAMBDA x : Len(x) >= WorkingMinSentence
                         /\ Working_is_relevant(x, Lower(question)))

\* how many relevant sentences are collected: up to the first one that brings the
\* joined length over WorkingEnough, or all of them
RelevantTaken(rel) ==
    LET over == {j \in 1..Len(rel) : Len(Join(SubSeq(rel, 1, j), " ")) > WorkingEnough}
    IN  IF over = {} THEN Len(rel) ELSE SetMin(over)

\* the collected relevant sentences joined by blanks ("" when there is none)
RelevantJoined(rel) == Join(SubSeq(rel, 1, RelevantTaken(rel)), " ")

\* s cut to n characters, an ellipsis added when something was cut
CutWithEllipsis(s, n) == IF Len(s) > n THEN Take(s, n) \o "..." ELSE s

\* what each class answers in the case of C11
C11_GroqAnswer(question, text) ==
    IF AnyIn(Lower(question), {"diabetes", "heart", "cancer"})
    THEN call.ret \in {GroqCompare, GroqDiabetes \o Disclaimer, GroqHeart \o Disclaimer,
                       GroqCancer \o Disclaimer}
         /\ call.searches = IF self.groq_available THEN 1 ELSE 0
    ELSE IF LongSentences(text, GroqMinSentence) # {}
    THEN call.ret = Take(FirstLongSentence(text, GroqMinSentence), GroqSentenceBudget)
                    \o "..." \o Disclaimer
    ELSE call.ret = GroqDefault \o Disclaimer

C11_EnhancedAnswer(question, text) ==
    IF LongSentences(text, EnhancedMinSentence) # {}
    THEN call.ret = CutWithEllipsis(FirstLongSentence(text, EnhancedMinSentence),
                                    EnhancedSentenceBudget) \o Disclaimer
    ELSE call.ret \in {EnhancedDiabetes \o Disclaimer, EnhancedHeart \o Disclaimer,
                       EnhancedCancer \o Disclaimer, EnhancedDefault \o Disclaimer}

C11_WorkingAnswer(question, content, joined) ==
    IF joined # ""
    THEN call.ret = (IF Len(joined) > WorkingResponseBudget
                     THEN Take(joined, WorkingResponseCut) \o "..." ELSE joined)
                    \o Disclaimer
    ELSE IF LongSentences(content, WorkingSubstantial) # {}
    THEN call.ret = CutWithEllipsis(FirstLongSentence(content, WorkingSubstantial),
                                    WorkingPartBudget) \o Disclaimer
    ELSE call.ret = CutWithEllipsis(content, WorkingPartBudget) \o Disclaimer

\* C11, amended: without a completion and with at least one retrieved chunk, the
\* answer of a non-emergency query is, in EnhancedMedicalChatbot, the first sentence
\* of the retrieved context longer than 50 cut to 400, and a keyword-table entry when
\* no sentence is that long; in GroqMedicalChatbot a keyword-table entry whenever the
\* query names diabetes, heart or cancer (the store is then not searched for the
\* answer), otherwise the first sentence of the cleaned context longer than 40 cut to
\* 250 and always followed by an ellipsis, and the default entry when there is none;
\* in working_chain the relevant sentences of the first chunk joined up to 200
\* characters and cut to 500, and only when none is relevant the first sentence
\* longer than 50 (or else the chunk itself) cut to 400.
C11_FallbackFromRetrieval ==
    C11_Case =>
        IF variant = "groq"
        THEN C11_GroqAnswer(call.arg, RetrievedText("groq", FallbackSearch.docs))
        ELSE IF variant = "enhanced"
        THEN C11_EnhancedAnswer(call.arg, RetrievedText("enhanced", FallbackSearch.docs))
        ELSE C11_WorkingAnswer(call.arg, FallbackSearch.docs[1],
                               RelevantJoined(RelevantOf(FallbackSearch.docs[1], call.arg)))

\* a failed completion in GroqMedicalChatbot answered with the first long sentence of
\* the context of the second search
C11_Witness ==
    /\ C11_Case /\ variant = "groq"
    /\ call.invokes = 1 /\ request.w.llm.raised /\ call.searches = 2
    /\ LongSentences(RetrievedText("groq", FallbackSearch.docs), GroqMinSentence) # {}
    /\ call.ret = Take(FirstLongSentence(RetrievedText("groq", FallbackSearch.docs),
                                         GroqMinSentence), GroqSentenceBudget)
                  \o "..." \o Disclaimer


(***************************************************************************)
(* C12                                                                     *)
(***************************************************************************)

\* the hand-written table of a class in its if/elif order: the substrings tested and
\* the entry returned
KeywordTable(v) ==
    IF v = "working"
    THEN << <<{"diabetes"}, WorkingDiabetes>>, <<{"heart", "cardiac"}, WorkingHeart>>,
            <<{"cancer"}, WorkingCancer>>, <<{"asthma"}, WorkingAsthma>>,
            <<{"headache"}, WorkingHeadache>>, <<{"fever"}, WorkingFever>>,
            <<{"cold", "flu"}, WorkingCold>>, <<{"blood pressure"}, WorkingPressure>>,
            <<{"allerg", "sneez"}, WorkingAllergy>> >>
    ELSE << <<{"diabetes"}, EnhancedDiabetes>>, <<{"heart"}, EnhancedHeart>>,
            <<{"cancer"}, EnhancedCancer>> >>

KeywordDefault(v) == IF v = "working" THEN WorkingDefault ELSE EnhancedDefault

\* the rows of the table of v with a key that occurs in the lower-cased query
KeywordHits(v, query) ==
    {i \in 1..Len(KeywordTable(v)) : AnyIn(Lower(query), KeywordTable(v)[i][1])}

\* a non-emergency query for which no chunk or no context was obtained: there is no
\* store, the search returned an empty list or, in EnhancedMedicalChatbot, the search
\* raised and _get_medical_context returned None.  (A raising search in working_chain
\* is not such a case: it leaves get_response through its except branch.)
C12_Case ==
    /\ Answered /\ variant \in {"working", "enhanced"}
    /\ ~Truthy(call.emergency)
    /\ \/ self.vectorstore = NoStore
       \/ ~request.w.search[1].raised /\ Len(request.w.search[1].docs) = 0
       \/ variant = "enhanced" /\ request.w.search[1].raised

\* C12: when the search returns no chunks, or no context is obtained, the answer is
\* the entry of the first row of the hand-written table, in its if/elif order, with a
\* key contained in the lower-cased query, or the table's default sentence when no
\* row matches, followed by the disclaimer; no completion is requested.
C12_KeywordTableWhenNoChunks ==
    C12_Case =>
        /\ call.ret = (IF KeywordHits(variant, call.arg) = {} THEN KeywordDefault(variant)
                       ELSE KeywordTable(variant)[SetMin(KeywordHits(variant, call.arg))][2])
                      \o Disclaimer
        /\ call.invokes = 0

\* a query naming two diseases gets the entry of the earlier row, although the hosted
\* model is available
C12_Witness ==
    /\ C12_Case /\ variant = "enhanced" /\ self.groq_available
    /\ call.searches = 1 /\ request.w.search[1].docs = <<>>
    /\ Cardinality(KeywordHits(variant, call.arg)) = 2
    /\ call.ret = EnhancedDiabetes \o Disclaimer


(***************************************************************************)
(* C19                                                                     *)
(***************************************************************************)

\* the generic messages of the broad exception handlers: of app.chat and of the
\* get_response of each class
GenericMessages == {GenericError, GroqCaught, EnhancedCaught, WorkingCaught, UpdatedCaught}

\* C19 as stated: a completion call that fails is made once only and the request is
\* answered with the generic message of a broad exception handler.
C19_Original ==
    (Answered /\ LLMFailed) =>
        /\ call.invokes = 1
        /\ call.ret \in GenericMessages

\* what the same object answers to the last request when its hosted model is not
\* configured and the search used by the fallback gives what it gave in the request
AnswerWithoutModel ==
    GetResponse(variant, [self EXCEPT !.groq_available = FALSE], call.arg,
                [request.w EXCEPT !.search = <<FallbackSearch, FallbackSearch>>]).ret

\* C19, amended: a completion call that fails during a request is not retried
\* (llm.invoke is called once) and its exception is caught by the except branch of
\* _get_groq_enhanced_response itself, not by the broad handler of get_response or of
\* app.chat: the request is answered with what _get_basic_response returns, the
\* retrieval-based or keyword-table answer the object gives when no hosted model is
\* configured, and a POST /chat is answered with status 'success'.
C19_FailedCompletionFallsBack ==
    (Answered /\ LLMFailed) =>
        /\ call.invokes = 1
        /\ ~call.caught /\ ~call.raised
        /\ call.ret = AnswerWithoutModel
        /\ call.ret \notin GenericMessages
        /\ wired => reply.status = "success" /\ reply.response = call.ret

\* a failed completion answered with a sentence of the retrieved chunk
C19_Witness ==
    /\ Answered /\ LLMFailed /\ wired /\ variant = "groq"
    /\ call.searches = 2
    /\ request.w.search[2].docs = <<BookDiabetes>>
    /\ Contains(reply.response, "Diabetes mellitus is a chronic disease")
    /\ reply.status = "success"


(***************************************************************************)
(* C16                                                                     *)
(***************************************************************************)

\* once the chatbot is constructed, no step changes the object or its binding
FieldsKept ==
    phase # "boot" => self' = self /\ variant' = variant /\ wired' = wired

\* the answer and the reply of the request being handled are those the object gives
\* to this request alone
ReplyOfThisRequest ==
    /\ Answered => call.ret = GetResponse(variant, self, call.arg, request.w).ret
    /\ Replied => reply = chat(variant, self, request.body, request.w).reply

\* C16: no session state is carried between requests: after construction no request
\* changes groq_available, llm, vectorstore or the class the application is bound to,
\* and every reply is the one the constructed object gives to the request's message,
\* retrieval results and completion result alone, whatever was asked before.
C16_NoSessionState == []ReplyOfThisRequest /\ [][FieldsKept]_vars

\* a request whose completion call failed leaves the hosted model switched on
C16_Witness ==
    /\ Replied /\ variant = "groq" /\ LLMFailed
    /\ self.groq_available /\ self.llm # NoLLM
    /\ reply.status = "success"

(***************************************************************************)
(* C13                                                                     *)
(***************************************************************************)

\* _better_medical_split has been applied to the text of the trial
SplitDone == trial.step = "split" /\ trial.done

\* s is a match of the disease pattern: an upper-case letter, one or more upper-case
\* letters or white-space characters, and one of the suffixes
IsHeading(s) ==
    \E t \in DiseaseSuffixes :
        /\ EndsWith(s, t) /\ Len(s) >= Len(t) + 2
        /\ IsUpper(CharAt(s, 1))
        /\ \A j \in 2..(Len(s) - Len(t)) : IsUpper(CharAt(s, j)) \/ IsSpace(CharAt(s, j))

\* the entries re.split found: entry k has the name sections[2k] and the content
\* sections[2k + 1] (1-based)
EntriesOf(sections) == 1..((Len(sections) - 1) \div 2)

\* content holds none of the section words, in any case
NoSectionWord(content) == ~AnyIn(Lower(content), SectionWords)

\* C13 as stated: for every heading that matches the disease pattern and is followed
\* by some text, a chunk is returned that includes the text following the heading,
\* whatever its length.
C13_Original ==
    SplitDone =>
        \A k \in EntriesOf(trial.out.sections) :
            Strip(trial.out.sections[2 * k + 1]) # "" =>
                \E j \in 1..Len(trial.out.documents) :
                    Contains(trial.out.documents[j], Strip(trial.out.sections[2 * k + 1]))

\* what C13, amended, says of the entry with the stripped name, the content and the
\* chunks given
C13_Entry(name, content, chunks) ==
    /\ Len(content) <= BookMinContent => chunks = <<>>
    /\ (Strip(content) = "" /\ Len(name) + 2 <= BookMinChunk) => chunks = <<>>
    /\ (Len(content) > BookMinContent /\ Strip(content) # "" /\ NoSectionWord(content))
           => chunks = <<Strip(name \o "\n\n" \o content)>>
    /\ \A j \in 1..Len(chunks) : StartsWith(chunks[j], name) /\ Strip(chunks[j]) = chunks[j]

\* C13, amended: re.split cuts the text at the matches of the disease pattern, and
\* the text that follows a matched heading up to the next one becomes chunks only
\* when it is longer than 100 characters: then, when it names no section header and
\* is not blank, it is one chunk, the stripped heading, an empty line and the text;
\* every chunk of an entry starts with the stripped heading.  A text of 100
\* characters or fewer after a heading, and a blank one, gives no chunk, and the
\* documents of the headings are the chunks of the entries in text order.
C13_EntryChunks ==
    SplitDone =>
        /\ Join(trial.out.sections, "") = trial.text
        /\ Len(trial.out.sections) % 2 = 1
        /\ Len(trial.out.entries) = (Len(trial.out.sections) - 1) \div 2
        /\ \A k \in EntriesOf(trial.out.sections) :
            /\ IsHeading(trial.out.sections[2 * k])
            /\ C13_Entry(Strip(trial.out.sections[2 * k]), trial.out.sections[2 * k + 1],
                         trial.out.entries[k])
        /\ trial.out.diseases = Extend(trial.out.entries)

\* two headings: the short note after the first one is in no document, the sentences
\* after the second one are a chunk
C13_Witness ==
    /\ SplitDone
    /\ Len(trial.out.sections) = 5
    /\ Strip(trial.out.sections[3]) # "" /\ Len(trial.out.sections[3]) <= BookMinContent
    /\ trial.out.entries[1] = <<>>
    /\ \A j \in 1..Len(trial.out.documents) :
          ~Contains(trial.out.documents[j], Strip(trial.out.sections[3]))
    /\ trial.out.entries[2] = <<"LUNG cancer\n\n\n" \o Sentence \o Strip(Sentence)>>

(***************************************************************************)
(* C14                                                                     *)
(***************************************************************************)

\* the stripped paragraphs of text
StrippedParagraphs(text) ==
    {Strip(SplitParagraphs(text)[k]) : k \in 1..Len(SplitParagraphs(text))}

\* a paragraph passes the test of the backup
PassesBackup(q) ==
    /\ Len(q) > BookMinParagraph /\ Len(q) < BookMaxParagraph
    /\ ~AnyIn(Lower(q), {"contents", "index", "volume", "chapter"})

\* C14: the paragraph backup runs exactly when the headings gave fewer than 50
\* documents; every document it adds is a stripped paragraph of the text longer than
\* 200 and shorter than 1500 characters whose lower-cased text holds none of
\* 'contents', 'index', 'volume' and 'chapter', and every such paragraph is added;
\* with 50 or more documents of the headings no paragraph is added.
C14_ParagraphBackup ==
    SplitDone =>
        \A paragraphs \in {StrippedParagraphs(trial.text)} :
            /\ trial.out.backup <=> Len(trial.out.diseases) < BookFewDocuments
            /\ SubSeq(trial.out.documents, 1, Len(trial.out.diseases)) = trial.out.diseases
            /\ ~trial.out.backup => trial.out.documents = trial.out.diseases
            /\ \A j \in (Len(trial.out.diseases) + 1)..Len(trial.out.documents) :
                /\ trial.out.documents[j] \in paragraphs
                /\ PassesBackup(trial.out.documents[j])
            /\ trial.out.backup =>
                \A q \in paragraphs :
                    PassesBackup(q) =>
                        \E j \in (Len(trial.out.diseases) + 1)..Len(trial.out.documents) :
                            trial.out.documents[j] = q

\* a book whose headings give 50 documents or more: its paragraphs would pass the
\* test, and none is added
C14_Witness ==
    /\ SplitDone
    /\ ~trial.out.backup
    /\ Len(trial.out.documents) >= BookFewDocuments
    /\ Strip(Paragraph) \in StrippedParagraphs(trial.text)
    /\ PassesBackup(Strip(Paragraph))
    /\ \A j \in 1..Len(trial.out.documents) : trial.out.documents[j] # Strip(Paragraph)

(***************************************************************************)
(* C20                                                                     *)
(***************************************************************************)

\* _initialize_groq has been applied in the environment of the trial, and it reached
\* its loop
ProbedAtStartup ==
    /\ trial.step = "initialize_groq" /\ trial.done
    /\ trial.env.groqLib /\ KeyValid(trial.env.key)

\* the models whose probe reply holds READY in the environment env
ReadyModels(env) == {i \in 1..Len(GroqModelNames) : env.probes[i] = "READY"}

\* the least member of a non-empty set of numbers
Least(S) == CHOOSE i \in S : \A j \in S : i <= j

\* C20: _initialize_groq calls ChatGroq for the models in list order, 1, 2, ..., and
\* sends the probe to each client that was built; it stops at the first model whose
\* reply holds 'READY'.  groq_available is True exactly when a probed model replied
\* with 'READY'; then self.llm is the client of the first such model and no later
\* model was tried.  A model whose construction or probe raised is passed over: when
\* no model replies 'READY' all five are tried.  groq_available implies that self.llm
\* is not None.
C20_ProbeOrder ==
    /\ (trial.step = "initialize_groq" /\ trial.done /\ trial.out.groq_available)
           => trial.out.llm # NoLLM
    /\ ProbedAtStartup =>
        /\ trial.out.tried = [k \in 1..Len(trial.out.tried) |-> k]
        /\ trial.out.probed =
               SelectSeq(trial.out.tried, LAMBDA i : trial.env.probes[i] # "ctor")
        /\ trial.out.groq_available
               <=> \E k \in 1..Len(trial.out.probed) :
                       trial.env.probes[trial.out.probed[k]] = "READY"
        /\ trial.out.groq_available <=> ReadyModels(trial.env) # {}
        /\ ReadyModels(trial.env) # {} =>
            /\ Len(trial.out.tried) = Least(ReadyModels(trial.env))
            /\ trial.out.llm = GroqModelNames[Least(ReadyModels(trial.env))]
        /\ ReadyModels(trial.env) = {} => Len(trial.out.tried) = Len(GroqModelNames)

\* the first model's probe raises, the second replies READY: the second is the
\* client, and a third model was not tried
C20_Witness ==
    /\ ProbedAtStartup
    /\ trial.env.probes[1] = "invoke" /\ trial.env.probes[2] = "READY"
    /\ trial.out.groq_available
    /\ trial.out.llm = GroqModelNames[2]
    /\ trial.out.tried = <<1, 2>> /\ trial.out.probed = <<1, 2>>

(***************************************************************************)
(* C17                                                                     *)
(***************************************************************************)

\* GROQ_API_KEY is set and its first four characters are gsk_
HasGroqPrefix(key) == key # None /\ Len(key[1]) >= 4 /\ SubSeq(key[1], 1, 4) = "gsk_"

\* _initialize_groq or test_groq has been applied in the environment of the trial
KeyChecked == trial.step \in {"initialize_groq", "test_groq"} /\ trial.done

\* a ChatGroq client was asked for
Attempted == trial.out.tried # <<>>

\* C17 as stated: the LLM is attempted if and only if GROQ_API_KEY is set and starts
\* with 'gsk_'; with a key that is missing or has another prefix no client is
\* created, no probe is sent and groq_available remains False.
C17_Original ==
    KeyChecked =>
        /\ Attempted <=> HasGroqPrefix(trial.env.key)
        /\ ~HasGroqPrefix(trial.env.key) =>
            /\ trial.out.tried = <<>> /\ trial.out.probed = <<>>
            /\ trial.step = "initialize_groq" => ~trial.out.groq_available

\* C17, amended: in _initialize_groq and in test_groq the key is judged by its prefix
\* alone, once langchain_groq has been imported.  With langchain_groq importable,
\* ChatGroq is called if and only if GROQ_API_KEY is set and starts with 'gsk_',
\* whatever the models answer; when the import fails nothing is attempted, even with a
\* key that starts with 'gsk_'.  With a key that is missing or has another prefix no
\* client is created and no probe is sent, with or without the library,
\* groq_available stays False, self.llm stays None and test_groq returns False.
C17_PrefixOnly ==
    KeyChecked =>
        /\ trial.env.groqLib => (Attempted <=> HasGroqPrefix(trial.env.key))
        /\ ~trial.env.groqLib => ~Attempted
        /\ ~HasGroqPrefix(trial.env.key) =>
            /\ trial.out.tried = <<>> /\ trial.out.probed = <<>>
            /\ trial.step = "initialize_groq" =>
                   ~trial.out.groq_available /\ trial.out.llm = NoLLM
            /\ trial.step = "test_groq" => trial.out.ret = None

\* a key of another prefix, in an environment whose first model would reply READY:
\* nothing is tried and groq_available is False
C17_Witness ==
    /\ trial.step = "initialize_groq" /\ trial.done
    /\ trial.env.groqLib
    /\ trial.env.key = Some("sk-live-123")
    /\ trial.env.probes[1] = "READY"
    /\ trial.out.tried = <<>> /\ trial.out.probed = <<>>
    /\ ~trial.out.groq_available

(***************************************************************************)
(* C15                                                                     *)
(***************************************************************************)

\* app.py has built its chatbot, or failed to, in a tracked installation
Started == wired /\ site.tracked

\* the message of the last request is a string that is not empty once stripped
NonEmptyMessage == request.body.kind = "str" /\ Strip(request.body.text) # ""

\* C15: in an installation with any key and any state of ./medical_book_db,
\* MedicalChatbot() of app.py never raises.  With no ./medical_book_db the chatbot
\* holds the in-memory store of its hard-coded texts, or vectorstore = None when
\* building it failed (the class without fields holds none); with a key that is
\* missing or does not start with 'gsk_' groq_available is False; and every POST
\* /chat whose message is not empty is answered with status 'success'.
C15_DegradesSilently ==
    Started =>
        /\ phase # "crashed"
        /\ site.db = "absent" => self.vectorstore \in {"basic", NoStore}
        /\ ~HasGroqPrefix(site.key) => ~self.groq_available /\ self.llm = NoLLM
        /\ (Replied /\ NonEmptyMessage) =>
               /\ reply.status = "success" /\ reply.http = 200
               /\ call.called /\ ~call.raised

\* no key and no store: the chatbot answers a question from its basic knowledge
C15_Witness ==
    /\ Started /\ Replied /\ NonEmptyMessage
    /\ site.key = None /\ site.db = "absent"
    /\ variant = "groq"
    /\ self.vectorstore = "basic" /\ ~self.groq_available
    /\ call.searches >= 1
    /\ reply.status = "success"

(***************************************************************************)
(* C18                                                                     *)
(***************************************************************************)

\* a step of the application: its start, a request or the delivery of a reply
AppStep == phase # "boot" \/ phase' # "boot"

\* C18: no step of the application changes ./medical_book_db: not its start, and no
\* POST /chat, whatever the class app.py bound, the message, the searches and the
\* completion.  The store comes to exist only in a run of setup_medical_book.py or
\* reprocess_book.py in which load_medical_book got a book, and an existing store
\* ceases to exist only in a run of reprocess_book.py.
C18_StoreFrame ==
    [][/\ AppStep => site' = site
       /\ (site.db = "absent" /\ site'.db # "absent") =>
              /\ SetupBook \/ ReprocessBook
              /\ \E book \in ScriptBooks \ {None}, storeOK \in BOOLEAN :
                     \E o \in Processor_load_medical_book("absent", book, TRUE, storeOK) :
                         o.db = site'.db
       /\ (site.db # "absent" /\ site'.db = "absent") => ReprocessBook
       /\ site'.tracked = site.tracked /\ site'.key = site.key]_vars

\* a request answered from the ingested book: the store is as the scripts left it
C18_Witness ==
    /\ Replied /\ site.tracked
    /\ site.db = "ok" /\ self.vectorstore = "book"
    /\ call.searches >= 1 /\ request.w.search[1].docs # <<>>

(***************************************************************************)
(* C29                                                                     *)
(***************************************************************************)

\* the if/elif branches of GroqMedicalChatbot._get_basic_response in their order: the
\* substrings that must all occur in the lower-cased question, and the text returned
GroqKeywordTable ==
    << <<{"diabetes", "compare"}, GroqCompare>>,
       <<{"diabetes"}, GroqDiabetes \o Disclaimer>>,
       <<{"heart"}, GroqHeart \o Disclaimer>>,
       <<{"cancer"}, GroqCancer \o Disclaimer>> >>

\* the branches whose substrings all occur in the lower-cased query
GroqKeywordHits(query) ==
    {i \in 1..Len(GroqKeywordTable) :
        \A word \in GroqKeywordTable[i][1] : Contains(Lower(query), word)}

\* a query that names one of the three diseases
NamesDisease(query) ==
    \E word \in {"diabetes", "heart", "cancer"} : Contains(Lower(query), word)

\* a non-emergency query answered by a GroqMedicalChatbot whose groq_available is False
C29_Case ==
    /\ Answered /\ variant = "groq" /\ ~self.groq_available
    /\ ~Truthy(call.emergency)

\* C29: in GroqMedicalChatbot with groq_available False, a non-emergency query whose
\* lower-cased text contains 'diabetes', 'heart' or 'cancer' is answered with the text
\* of the first matching branch (diabetes and compare, diabetes, heart, cancer) and
\* similarity_search is not called, whatever store is loaded; a search is made only
\* when none of the three words occurs, and then exactly one if there is a store.
C29_KeywordBeforeRetrieval ==
    C29_Case =>
        /\ NamesDisease(call.arg) <=> GroqKeywordHits(call.arg) # {}
        /\ NamesDisease(call.arg) =>
               /\ call.ret = GroqKeywordTable[SetMin(GroqKeywordHits(call.arg))][2]
               /\ call.searches = 0
        /\ call.searches >= 1 => ~NamesDisease(call.arg)
        /\ ~NamesDisease(call.arg) =>
               call.searches = (IF self.vectorstore = NoStore THEN 0 ELSE 1)
        /\ call.invokes = 0

\* the ingested book is loaded and its search would have returned chunks, yet a query
\* naming two diseases gets the canned text of the earlier branch without a search
C29_Witness ==
    /\ C29_Case /\ self.vectorstore = "book"
    /\ request.w.search[1].docs # <<>>
    /\ call.arg = "Heart disease and diabetes"
    /\ call.ret = GroqDiabetes \o Disclaimer
    /\ call.searches = 0

(***************************************************************************)
(* C26                                                                     *)
(***************************************************************************)

\* the paragraph backup of _better_medical_split ran on the text of the trial
BackupRan == SplitDone /\ trial.out.backup

\* C26: when the paragraph backup runs, the documents returned begin with the chunks
\* of the headings, every one of them and in their order, nothing removed or replaced;
\* the documents after them are the paragraph chunks, so that no paragraph chunk
\* comes before a heading chunk.
C26_BackupAppends ==
    BackupRan =>
        \A n \in {Len(trial.out.diseases)}, paragraphs \in {StrippedParagraphs(trial.text)} :
            /\ Len(trial.out.documents) >= n
            /\ \A j \in 1..n : trial.out.documents[j] = trial.out.diseases[j]
            /\ \A k \in EntriesOf(trial.out.sections) :
                  \A c \in 1..Len(trial.out.entries[k]) :
                      \E j \in 1..n : trial.out.documents[j] = trial.out.entries[k][c]
            /\ \A j \in (n + 1)..Len(trial.out.documents) :
                  /\ trial.out.documents[j] \in paragraphs
                  /\ PassesBackup(trial.out.documents[j])

\* a paragraph under a heading: it is returned as a paragraph chunk and is also part
\* of the heading's chunk, which comes first
C26_Witness ==
    /\ BackupRan
    /\ Len(trial.out.diseases) = 1
    /\ Len(trial.out.documents) = 2
    /\ trial.out.documents[1] = trial.out.entries[1][1]
    /\ trial.out.documents[2] = Strip(Paragraph)
    /\ Contains(trial.out.documents[1], trial.out.documents[2])

(***************************************************************************)
(* C27                                                                     *)
(***************************************************************************)

\* the places of the section headers in the pieces of a content (1-based: the pieces
\* at even places are the headers re.split kept), and the place after the last piece
HeaderPlaces(pieces) == {h \in 1..Len(pieces) : h % 2 = 0}

\* what every piece adds to a chunk it is folded into: a header and an empty line, a
\* content as it is, a blank content nothing
FoldedPieces(pieces) ==
    [h \in 1..Len(pieces) |->
        IF h % 2 = 0 THEN pieces[h] \o "\n\n"
        ELSE IF Strip(pieces[h]) # "" THEN pieces[h] ELSE ""]

\* the chunk accumulated when place h is reached, the last chunk having been closed at
\* the header at place c (0: none was closed)
AccumulatedFrom(name, pieces, c, h) ==
    (IF c = 0 THEN name \o "\n\n" ELSE name \o " - " \o pieces[c] \o "\n\n")
    \o Join(SubSeq(FoldedPieces(pieces), c + 1, h - 1), "")

\* the same, the chunks having been closed at the headers of closed
Accumulated(name, pieces, closed, h) ==
    AccumulatedFrom(name, pieces,
                    IF \A c \in closed : c >= h THEN 0
                    ELSE SetMax({c \in closed : c < h}), h)

\* closed holds exactly the headers reached with an accumulated chunk longer than 300
\* characters
ClosedWhenSubstantial(name, pieces, closed) ==
    \A h \in HeaderPlaces(pieces) :
        h \in closed <=> Len(Accumulated(name, pieces, closed, h)) > BookSubstantialChunk

\* the chunks emitted with the chunks closed at the headers of closed: one at every
\* such header, and the trailing one if it is longer than 100 characters
EmittedAt(name, pieces, closed) ==
    SelectSeq([h \in 1..(Len(pieces) + 1) |-> h],
              LAMBDA h : \/ h \in closed
                         \/ /\ h = Len(pieces) + 1
                            /\ Len(Accumulated(name, pieces, closed, h)) > BookMinChunk)

EmittedChunks(name, pieces, closed, at) ==
    [j \in 1..Len(at) |-> Strip(Accumulated(name, pieces, closed, at[j]))]

\* what C27 says of the entry with the stripped name, the content, its pieces and
\* the chunks given
C27_Entry(name, content, pieces, chunks) ==
    /\ Len(content) <= BookMinContent => chunks = <<>>
    /\ Len(content) > BookMinContent =>
          \E closed \in SUBSET HeaderPlaces(pieces) :
              /\ ClosedWhenSubstantial(name, pieces, closed)
              /\ chunks = EmittedChunks(name, pieces, closed,
                                        EmittedAt(name, pieces, closed))
    /\ \A j \in 1..Len(chunks) : StartsWith(chunks[j], name)

\* C27: every chunk of _split_disease_content starts with the name of the heading.
\* A chunk is closed at a section header (Symptoms, Causes, Treatment, Diagnosis,
\* Prevention, Prognosis) exactly when the chunk accumulated so far is longer than 300
\* characters, and the next chunk then begins with the name, " - " and the header;
\* otherwise the header is folded into the current chunk.  The trailing chunk is
\* emitted exactly when it is longer than 100 characters, and a heading followed by
\* 100 characters or fewer gives no chunk.
C27_SectionChunks ==
    SplitDone =>
        \A k \in EntriesOf(trial.out.sections) :
            C27_Entry(Strip(trial.out.sections[2 * k]), trial.out.sections[2 * k + 1],
                      SplitSections(trial.out.sections[2 * k + 1]), trial.out.entries[k])

\* an entry with two section headers: the chunk is closed at the first one, reached
\* with more than 300 characters, and the second one is folded into the second chunk
C27_Witness ==
    /\ SplitDone
    /\ Len(trial.out.sections) = 3
    /\ Len(SplitSections(trial.out.sections[3])) = 5
    /\ Len(trial.out.entries[1]) = 2
    /\ Len(trial.out.entries[1][1]) > BookSubstantialChunk
    /\ StartsWith(trial.out.entries[1][2], "HEART disease - Symptoms\n\n are thirst.")
    /\ Contains(trial.out.entries[1][2], "TREATMENT\n\n is rest.")

\* an entry whose last chunk is dropped: the chunk closed at the header is the only one
C27_WitnessTrailing ==
    /\ SplitDone
    /\ Len(trial.out.sections) = 3
    /\ Len(SplitSections(trial.out.sections[3])) = 3
    /\ Len(trial.out.entries[1]) = 1
    /\ ~Contains(trial.out.entries[1][1], "Prognosis")

(***************************************************************************)
(* C28                                                                     *)
(***************************************************************************)

\* the first search of the last request returned chunks
Retrieved ==
    /\ call.searches >= 1
    /\ ~request.w.search[1].raised /\ request.w.search[1].docs # <<>>

\* the contexts GroqMedicalChatbot._get_medical_context gives for the searches of the
\* last request
GroqContexts ==
    {Groq_get_medical_context(self, call.arg, request.w.search[i]).ctx : i \in 1..2}

\* the last request was answered by GroqMedicalChatbot._get_basic_response past its
\* keyword branches
GroqPastKeywords ==
    /\ variant = "groq" /\ ~NamesDisease(call.arg)
    /\ ~self.groq_available \/ self.llm = NoLLM \/ request.w.llm.raised

\* C28: whatever the length of the retrieved chunks, the text _format_concise_response
\* of working_chain returns has at most 500 characters, a longer one being cut to its
\* first 497 characters and '...'; the context of GroqMedicalChatbot has at most 800
\* characters, at most 500 of them are put into the prompt, and the sentence its
\* fallback returns is cut to 250 characters before '...'; the context of
\* EnhancedMedicalChatbot has at most 2000 characters.
C28_LengthBounds ==
    (Answered /\ ~Truthy(call.emergency)) =>
        /\ (variant = "working" /\ Retrieved) =>
              \A part \in {Working_extract_most_relevant_part(request.w.search[1].docs[1],
                                                              call.arg)} :
                  /\ Len(call.ret) <= 500 + Len(Disclaimer)
                  /\ call.ret = (IF Len(part) > 500 THEN SubSeq(part, 1, 497) \o "..."
                                 ELSE part) \o Disclaimer
        /\ variant = "groq" =>
              /\ \A ctx \in GroqContexts : Truthy(ctx) => Len(ctx[1]) <= 800
              /\ \A i \in 1..Len(call.prompts) :
                    Len(call.prompts[i]) <=
                        Len(GroqPromptHead) + Len(call.arg) + Len("\n\n")
                        + Len(GroqPromptReference) + 500 + Len("\n\n") + Len(GroqPromptTail)
              /\ (GroqPastKeywords /\ call.ret # GroqDefault \o Disclaimer) =>
                    /\ EndsWith(call.ret, "..." \o Disclaimer)
                    /\ Len(call.ret) <= 250 + Len("...") + Len(Disclaimer)
        /\ variant = "enhanced" =>
              (Truthy(ContextOf("enhanced")) => Len(ContextOf("enhanced")[1]) <= 2000)

\* a chunk of one long sentence that the question is relevant to: working_chain
\* answers with its first 497 characters and '...'
C28_Witness ==
    /\ Answered /\ variant = "working" /\ Retrieved
    /\ Len(request.w.search[1].docs[1]) > 800
    /\ Len(Working_extract_most_relevant_part(request.w.search[1].docs[1], call.arg)) > 500
    /\ call.ret = SubSeq(request.w.search[1].docs[1], 1, 497) \o "..." \o Disclaimer

\* GroqMedicalChatbot: a context cut at 800 characters, a prompt with 500 of them
C28_WitnessGroq ==
    /\ Answered /\ variant = "groq" /\ Retrieved
    /\ Len(Join(GroqCleanContent(request.w.search[1].docs), "\n")) > 800
    /\ Len(ContextOf("groq")[1]) = 800
    /\ call.invokes = 1
    /\ Contains(call.prompts[1], SubSeq(ContextOf("groq")[1], 1, 500) \o "\n\n")
    /\ ~Contains(call.prompts[1], SubSeq(ContextOf("groq")[1], 1, 501))

\* GroqMedicalChatbot: a sentence of the context cut at 250 characters
C28_WitnessSentence ==
    /\ Answered /\ GroqPastKeywords /\ Retrieved
    /\ Len(call.ret) = 250 + Len("...") + Len(Disclaimer)

\* EnhancedMedicalChatbot: three chunks of more than 2000 characters together
C28_WitnessEnhanced ==
    /\ Answered /\ variant = "enhanced" /\ Retrieved
    /\ Len(Join(request.w.search[1].docs, "\n\n")) > 2000
    /\ Len(ContextOf("enhanced")[1]) = 2000

(***************************************************************************)
(* C21                                                                     *)
(***************************************************************************)

\* python app.py has bound MedicalChatbot and built, or failed to build, its chatbot
AppBound == wired

\* C21: app.py binds one class to MedicalChatbot, by the fixed priority of its import
\* statements: GroqMedicalChatbot exactly when the import of chatbot.groq_chain
\* succeeded; the MedicalChatbot of working_chain exactly when that import raised
\* ImportError and the import of chatbot.working_chain succeeded; BasicMedicalChatbot
\* exactly when both raised ImportError.  An import is attempted only when every
\* import before it raised ImportError, and BasicMedicalChatbot.get_response returns
\* its one fixed string for every message, without search or completion.
C21_ImportPriority ==
    AppBound =>
        /\ variant \in {"groq", "working", "basic"}
        /\ variant = "groq" <=> imports.groq = "ok"
        /\ variant = "working" <=>
              imports.groq = "ImportError" /\ imports.working = "ok"
        /\ variant = "basic" <=>
              imports.groq = "ImportError" /\ imports.working = "ImportError"
        /\ imports.working # "untried" <=> imports.groq = "ImportError"
        /\ (variant = "basic" /\ phase = "replied" /\ call.called) =>
              /\ call.ret = BasicReply
              /\ call.searches = 0 /\ call.invokes = 0 /\ ~call.raised
              /\ reply.response = BasicReply /\ reply.status = "success"

\* both imports raised ImportError: the built-in class answers a message that is an
\* emergency for every other class with its fixed string
C21_Witness ==
    /\ AppBound /\ variant = "basic"
    /\ imports.groq = "ImportError" /\ imports.working = "ImportError"
    /\ phase = "replied" /\ call.called
    /\ call.arg = "I have chest pain"
    /\ reply.response = "Medical chatbot available. Please consult healthcare professionals."

\* the import of groq_chain raised ImportError and that of working_chain succeeded
C21_WitnessWorking ==
    /\ AppBound /\ variant = "working"
    /\ imports.groq = "ImportError" /\ imports.working = "ok"
    /\ phase = "replied" /\ call.called


\* ---------------------------------------------------------------------------
\* a call of load_medical_book that has ended, and the cases in which it has nothing
\* to store
C24_Loaded == trial.step = "load" /\ trial.done

C24_ExtractionFailed ==
    /\ trial.load.book # None
    /\ \/ ~trial.load.book[1].opens
       \/ \E n \in 1..Len(trial.load.book[1].pages) : trial.load.book[1].pages[n] = None

C24_NothingToStore ==
    \/ trial.load.book = None
    \/ C24_ExtractionFailed
    \/ Len(trial.out.text) < 100

\* C24  load_medical_book returns None without calling Chroma.from_documents, and
\* leaves ./medical_book_db as it was, when nothing exists at the book path, when the
\* extraction of the PDF fails (the text is then empty), or when fewer than 100
\* characters were extracted; an exception of the split or of the storing is caught
\* and yields None as well; the function never raises.
C24_LoadNeverRaises ==
    C24_Loaded =>
        /\ ~trial.out.raised
        /\ (C24_ExtractionFailed => trial.out.text = "")
        /\ (C24_NothingToStore =>
               /\ trial.out.ret = NoStore
               /\ ~trial.out.stored
               /\ trial.out.db = trial.load.db)
        /\ (~C24_NothingToStore /\ ~(trial.load.splitOK /\ trial.load.storeOK) =>
               trial.out.ret = NoStore)

\* a book of enough text whose storing raised: None is returned, nothing is raised
C24_Witness ==
    /\ C24_Loaded /\ ~C24_NothingToStore
    /\ trial.load.splitOK /\ ~trial.load.storeOK
    /\ trial.out.stored /\ trial.out.ret = NoStore /\ trial.out.db = "broken"

\* a PDF whose second page cannot be extracted, over an existing store
C24_WitnessExtraction ==
    /\ C24_Loaded /\ C24_ExtractionFailed
    /\ trial.load.book[1].opens /\ trial.load.db = "ok"
    /\ trial.out.text = "" /\ trial.out.ret = NoStore

\* a scanned PDF: some text, fewer than 100 characters
C24_WitnessScanned ==
    /\ C24_Loaded /\ ~C24_ExtractionFailed /\ trial.load.book # None
    /\ Len(trial.out.text) > 0 /\ Len(trial.out.text) < 100
    /\ trial.out.ret = NoStore


\* ---------------------------------------------------------------------------
\* a run of reprocess_medical_book that has ended
C23_Reprocessed == trial.step = "reprocess" /\ trial.done

\* C23  reprocess_medical_book removes an existing ./medical_book_db before it looks
\* for Medical_book.pdf: after a run that returned False, because the book is missing
\* or because load_medical_book returned None, the store that was persisted before is
\* gone (the directory was removed, and what is there now is not a store that opens);
\* the run returned True only if load_medical_book returned a vector store.
C23_RemovesBeforeChecking ==
    C23_Reprocessed =>
        /\ trial.out.ret = "False" =>
              /\ trial.out.removed = (trial.load.db # "absent")
              /\ trial.out.db # "ok"
              /\ (trial.load.book = None => trial.out.db = "absent" /\ trial.out.loads = <<>>)
              /\ (trial.load.book # None =>
                     Len(trial.out.loads) = 1 /\ trial.out.loads[1].ret = NoStore)
        /\ trial.out.ret = "True" =>
              /\ Len(trial.out.loads) = 1
              /\ trial.out.loads[1].ret # NoStore
              /\ trial.out.db = "ok"

\* a store was there, Medical_book.pdf is not: False, and the store is gone
C23_Witness ==
    /\ C23_Reprocessed /\ trial.load.db = "ok" /\ trial.load.book = None
    /\ trial.out.ret = "False" /\ trial.out.removed /\ trial.out.db = "absent"

\* a store was there and the book is a scan: load_medical_book returned None
C23_WitnessLoadNone ==
    /\ C23_Reprocessed /\ trial.load.db = "ok" /\ trial.load.book # None
    /\ trial.out.ret = "False" /\ trial.out.removed /\ trial.out.db # "ok"
    /\ Len(trial.out.loads) = 1

C23_WitnessTrue ==
    /\ C23_Reprocessed /\ trial.out.ret = "True" /\ trial.out.removed


\* ---------------------------------------------------------------------------
\* a run of setup_medical_book that has ended
C25_SetUp == trial.step = "setup" /\ trial.done

\* the calls of load_medical_book of the run, all failed but possibly the last
C25_LoadSucceeded ==
    /\ trial.out.loads # <<>>
    /\ trial.out.loads[Len(trial.out.loads)].ret # NoStore

\* C25  setup_medical_book does nothing on an ingested store: when
\* check_existing_book finds ./medical_book_db it returns True without loading a PDF
\* and without prompting; otherwise it returns True exactly when a call of
\* load_medical_book succeeded (the PDFs with a likely name in listing order until the
\* first success, then the numbered choice, then the typed path), and False in all
\* other cases (of the runs that reached check_existing_book: the processor was built).
C25_SetupReturns ==
    C25_SetUp /\ trial.run.embOK =>
        IF trial.load.db = "ok"
        THEN trial.out.ret = "True" /\ trial.out.loads = <<>> /\ trial.out.prompts = 0
        ELSE /\ C25_LoadSucceeded => trial.out.ret = "True"
             /\ ~C25_LoadSucceeded => trial.out.ret = "False"

\* the part of the statement that the function satisfies: True with no load and no
\* prompt on a store that opens; otherwise True exactly when the last load succeeded,
\* every load before it having failed, and the loads in the order of the listing
C25_SetupOrder ==
    C25_SetUp /\ trial.run.embOK =>
        /\ trial.load.db = "ok" =>
              trial.out.ret = "True" /\ trial.out.loads = <<>> /\ trial.out.prompts = 0
        /\ trial.load.db # "ok" =>
              /\ (trial.out.ret = "True") = C25_LoadSucceeded
              /\ \A n \in 1..(Len(trial.out.loads) - 1) : trial.out.loads[n].ret = NoStore
              /\ trial.out.ret = "False" => trial.out.prompts >= 1
              /\ trial.out.ret = "raised" => trial.run.typed = EndOfInput

\* no store, no PDF in the folder, standard input at its end: the run raises
C25_RaisedAtPrompt ==
    /\ C25_SetUp /\ trial.run.embOK /\ trial.load.db = "absent"
    /\ trial.run.folder = <<>> /\ trial.run.typed = EndOfInput
    /\ trial.out.ret = "raised" /\ trial.out.prompts = 1

\* the first likely PDF failed and the second was loaded
C25_SecondLoaded ==
    /\ C25_SetUp /\ Len(trial.out.loads) = 2 /\ trial.out.prompts = 0
    /\ trial.out.ret = "True"


\* ---------------------------------------------------------------------------
\* a run of reprocess_medical_book that is past its shutil.rmtree
C22_Removed(j) ==
    /\ j \in 1..Len(runs)
    /\ runs[j].kind = "reprocess"
    /\ runs[j].pc \notin {"check", "remove"}

\* C22  ./medical_book_db is opened without coordination or locking, so two ingestion
\* runs interleave: a run of reprocess_medical_book removes the directory after
\* another run (of reprocess_medical_book or of load_medical_book) has started or
\* finished writing it, and then the chunks of a completed ingestion are lost, or the
\* store is absent while a run reports success.  That is the only way: whenever a run
\* reported success and the directory is absent, a run of reprocess_medical_book
\* removed it after the reporting run began to write; and a run that nobody disturbed
\* reports success only with its store written.
C22_LostOnlyByRemoval ==
    \A i \in 1..Len(runs) :
        /\ (Succeeded(runs[i]) /\ site.db = "absent") =>
               runs[i].lostBy # 0
        /\ runs[i].lostBy # 0 =>
               /\ runs[i].lostBy # i
               /\ runs[i].writing # "no"
               /\ C22_Removed(runs[i].lostBy)
        /\ Succeeded(runs[i]) => runs[i].writing = "finished"

\* the store was removed while the other run was writing it: that run reports
\* success, and there is no store
C22_Witness ==
    \E i, j \in 1..Len(runs) :
        /\ i # j
        /\ Succeeded(runs[i]) /\ runs[i].lostBy = j
        /\ runs[j].pc = "done"
        /\ site.db = "absent"

\* a completed ingestion whose chunks were removed afterwards by a run that then
\* found no book: both runs are over, one reported True, and the store is absent
C22_WitnessCompletedLost ==
    \E i, j \in 1..Len(runs) :
        /\ i # j
        /\ runs[i].kind = "load" /\ runs[i].ret = "book" /\ runs[i].lostBy = j
        /\ runs[j].ret = "False"
        /\ site.db = "absent"

\* the directory removed between the start and the end of a writing
C22_WitnessWhileWriting ==
    \E i \in 1..Len(runs) :
        /\ runs[i].pc = "finish" /\ runs[i].writing = "begun" /\ runs[i].lostBy # 0
        /\ site.db = "absent"

\* two runs of reprocess_medical_book: the second rmtree finds the directory gone
C22_WitnessRmtreeRaised ==
    \E i, j \in 1..Len(runs) :
        /\ i # j /\ runs[i].ret = "raised" /\ runs[i].embOK
        /\ C22_Removed(j)

==============================================================================
